---- MODULE Spec2Model ----
(***************************************************************************)
(* A model of the Ariston API call manager (api_manager.py): the per-kind  *)
(* result cache, the circuit breaker, the retry engine with its 429        *)
(* handling, and the "global" 429 cooldown guarded by a class-level lock.  *)
(*                                                                         *)
(* Time is an integer number of milliseconds.  One asyncio task is one     *)
(* element of Tasks; an action of the model is the code a task runs        *)
(* between two suspension points of the event loop (a contended lock, an   *)
(* asyncio.sleep, the awaited provider call).                              *)
(***************************************************************************)
EXTENDS Integers, Sequences, FiniteSets, TLC

VARIABLES now, tasks, lock, mgrs, coords, cycles, fleet, dev, updates

(* The state of the device coordinator (coordinator.py) *)
dvars == <<dev, updates>>

(* The state of the coordinators: the batched ones and their manager       *)
(* (optimized_coordinator.py), and the device coordinator                  *)
cvars == <<coords, cycles, fleet, dev, updates>>

vars == <<now, tasks, lock, mgrs, coords, cycles, fleet, dev, updates>>

-----------------------------------------------------------------------------
(* Units and sentinels *)

Second == 1000

Minute == 60 * Second

None == "None"

NoTask == "NoTask"

(* None where the other values are integers (a time, a count) *)
NoTime == 0 - 1

(* An attribute an instance dictionary does not hold *)
NoAttr == 0 - 2

Min(a, b) == IF a < b THEN a ELSE b

Max(a, b) == IF a > b THEN a ELSE b

RECURSIVE Pow2(_)
Pow2(n) == IF n <= 0 THEN 1 ELSE 2 * Pow2(n - 1)

-----------------------------------------------------------------------------
(* CallType and CircuitBreakerState enums *)

STATE_UPDATE == "state_update"

BUS_ERRORS == "bus_errors"

ENERGY_DATA == "energy_data"

FEATURES == "features"

USER_ACTION == "user_action"

CallType == {STATE_UPDATE, BUS_ERRORS, ENERGY_DATA, FEATURES, USER_ACTION}

CLOSED == "closed"

OPEN == "open"

HALF_OPEN == "half_open"

-----------------------------------------------------------------------------
(* Configuration set in APICallManager.__init__ *)

max_failures == 5

recovery_timeout == 2 * Minute

min_call_interval == 15 * Second

batch_window == 30 * Second

(* The cache durations with the state kind's cut to one minute *)
cache_ttl_short_state(call_type) ==
    CASE call_type = STATE_UPDATE -> 1 * Minute
      [] call_type = BUS_ERRORS   -> 30 * Minute
      [] call_type = ENERGY_DATA  -> 60 * Minute
      [] call_type = FEATURES     -> 4 * 60 * Minute
      [] call_type = USER_ACTION  -> 0

cache_ttl(call_type) ==
    CASE call_type = STATE_UPDATE -> 5 * Minute
      [] call_type = BUS_ERRORS   -> 30 * Minute
      [] call_type = ENERGY_DATA  -> 60 * Minute
      [] call_type = FEATURES     -> 4 * 60 * Minute
      [] call_type = USER_ACTION  -> 0

(* The retry limits with the state kind's lowered to 2 *)
get_max_retries_state_2(call_type) ==
    CASE call_type = STATE_UPDATE -> 2
      [] call_type = BUS_ERRORS   -> 2
      [] call_type = ENERGY_DATA  -> 2
      [] call_type = FEATURES     -> 1
      [] call_type = USER_ACTION  -> 5

get_max_retries(call_type) ==
    CASE call_type = STATE_UPDATE -> 3
      [] call_type = BUS_ERRORS   -> 2
      [] call_type = ENERGY_DATA  -> 2
      [] call_type = FEATURES     -> 1
      [] call_type = USER_ACTION  -> 5

get_base_delay(call_type) ==
    CASE call_type = STATE_UPDATE -> 3 * Second
      [] call_type = BUS_ERRORS   -> 5 * Second
      [] call_type = ENERGY_DATA  -> 5 * Second
      [] call_type = FEATURES     -> 8 * Second
      [] call_type = USER_ACTION  -> 1 * Second

(* Class-level attributes of APICallManager.  No statement of the module   *)
(* assigns to the class, so these keep their initial values.               *)
class_global_429_count == 0

class_global_pause_until == NoTime

-----------------------------------------------------------------------------
(* Provider errors.  The manager only ever looks at str(error), so an      *)
(* error is identified by its message; the message is kept as a sequence   *)
(* of characters so that the substring tests and the Retry-After regular   *)
(* expression are computed rather than assumed.                            *)

E_TIMEOUT == "E_TIMEOUT"

E_429 == "E_429"

E_TOO_MANY == "E_TOO_MANY"

E_BLOCKED == "E_BLOCKED"

E_RATE_LIMIT == "E_RATE_LIMIT"

E_RETRY_AFTER == "E_RETRY_AFTER"

E_RETRY_AFTER_0 == "E_RETRY_AFTER_0"

Errors == {E_TIMEOUT, E_429, E_TOO_MANY, E_BLOCKED, E_RATE_LIMIT, E_RETRY_AFTER,
           E_RETRY_AFTER_0}

ErrorStr(err) ==
    CASE err = E_TIMEOUT       -> <<"t", "i", "m", "e", "o", "u", "t">>
      [] err = E_429           -> <<"H", "T", "T", "P", " ", "4", "2", "9">>
      [] err = E_TOO_MANY      -> <<"T", "o", "o", " ", "M", "a", "n", "y", " ", "R", "e", "q", "u", "e", "s", "t", "s">>
      [] err = E_BLOCKED       -> <<"R", "e", "q", "u", "e", "s", "t", "s", " ", "a", "r", "e", " ", "b", "l", "o", "c", "k", "e", "d">>
      [] err = E_RATE_LIMIT    -> <<"R", "a", "t", "e", " ", "L", "i", "m", "i", "t", " ", "e", "x", "c", "e", "e", "d", "e", "d">>
      [] err = E_RETRY_AFTER   -> <<"H", "T", "T", "P", " ", "4", "2", "9", " ", "R", "e", "t", "r", "y", "-", "A", "f", "t", "e", "r", ":", " ", "3", "0">>
      [] err = E_RETRY_AFTER_0 -> <<"4", "2", "9", " ", "r", "e", "t", "r", "y", " ", "a", "f", "t", "e", "r", " ", "0">>

UpperCase == <<"A", "B", "C", "D", "E", "F", "G", "H", "I", "J", "K", "L", "M",
               "N", "O", "P", "Q", "R", "S", "T", "U", "V", "W", "X", "Y", "Z">>

LowerCase == <<"a", "b", "c", "d", "e", "f", "g", "h", "i", "j", "k", "l", "m",
               "n", "o", "p", "q", "r", "s", "t", "u", "v", "w", "x", "y", "z">>

LowerChar(c) ==
    IF \E i \in 1..26 : UpperCase[i] = c
    THEN LowerCase[CHOOSE i \in 1..26 : UpperCase[i] = c]
    ELSE c

Lower(str) == [i \in 1..Len(str) |-> LowerChar(str[i])]

(* Python's `sub in str` *)
Contains(str, sub) ==
    \E i \in 1..(Len(str) - Len(sub) + 1) : SubSeq(str, i, i + Len(sub) - 1) = sub

StartsAt(str, i, sub) ==
    /\ i >= 1
    /\ i + Len(sub) - 1 <= Len(str)
    /\ SubSeq(str, i, i + Len(sub) - 1) = sub

is_http_429_error(err) ==
    LET error_str == ErrorStr(err) IN
    \/ Contains(error_str, <<"4", "2", "9">>)
    \/ Contains(error_str, <<"T", "o", "o", " ", "M", "a", "n", "y", " ", "R", "e", "q", "u", "e", "s", "t", "s">>)
    \/ Contains(error_str, <<"R", "e", "q", "u", "e", "s", "t", "s", " ", "a", "r", "e", " ", "b", "l", "o", "c", "k", "e", "d">>)
    \/ Contains(Lower(error_str), <<"r", "a", "t", "e", " ", "l", "i", "m", "i", "t">>)

Digits == <<"0", "1", "2", "3", "4", "5", "6", "7", "8", "9">>

IsDigit(c) == \E d \in 1..10 : Digits[d] = c

DigitValue(c) == (CHOOSE d \in 1..10 : Digits[d] = c) - 1

WhiteSpace == {" ", "\t", "\n", "\r"}

(* [:\s]* : the first position at or after i holding neither ':' nor space *)
RECURSIVE SkipColonSpace(_, _)
SkipColonSpace(str, i) ==
    IF i <= Len(str) /\ (str[i] = ":" \/ str[i] \in WhiteSpace)
    THEN SkipColonSpace(str, i + 1)
    ELSE i

(* (\d+) then int(): the value of the longest run of digits starting at i *)
RECURSIVE ReadInt(_, _, _)
ReadInt(str, i, acc) ==
    IF i <= Len(str) /\ IsDigit(str[i])
    THEN ReadInt(str, i + 1, 10 * acc + DigitValue(str[i]))
    ELSE acc

(* Where the digits of a match of  retry[_\s-]?after[:\s]*(\d+)  starting  *)
(* at i begin, or 0 when the pattern does not match at i (IGNORECASE).     *)
RetryAfterDigitsAt(str, i) ==
    LET low == Lower(str)
        j == i + 5
        a == IF j <= Len(str) /\ (str[j] \in {"_", "-"} \/ str[j] \in WhiteSpace)
             THEN j + 1 ELSE j
        d == SkipColonSpace(str, a + 5)
    IN IF /\ StartsAt(low, i, <<"r", "e", "t", "r", "y">>)
          /\ StartsAt(low, a, <<"a", "f", "t", "e", "r">>)
          /\ d <= Len(str)
          /\ IsDigit(str[d])
       THEN d ELSE 0

(* re.search takes the leftmost match; group(1) is converted with int().   *)
(* NoTime stands for the None returned when nothing matches.               *)
extract_retry_after(err) ==
    LET error_str == ErrorStr(err)
        hits == {i \in 1..Len(error_str) : RetryAfterDigitsAt(error_str, i) > 0}
    IN IF hits = {} THEN NoTime
       ELSE LET first == CHOOSE i \in hits : \A h \in hits : i <= h
            IN ReadInt(error_str, RetryAfterDigitsAt(error_str, first), 0)

(* The two classifications, evaluated once per error message *)
Is429 == [err \in Errors |-> is_http_429_error(err)]

RetryAfter == [err \in Errors |-> extract_retry_after(err)]

-----------------------------------------------------------------------------
(* The state of one APICallManager instance: a record `self`.  The dicts   *)
(* _cache and _last_call_time are functions whose DOMAIN is the key set.   *)
(* global_429_count / global_pause_until are the entries of the INSTANCE   *)
(* dictionary: NoAttr until a statement `self._global_... = ...` runs.     *)

EmptyDict == [x \in {} |-> None]

ZeroStats == [success |-> 0, failure |-> 0, cached |-> 0, rate_limited |-> 0]

NewManager ==
    [cache                 |-> EmptyDict,
     last_call_time        |-> EmptyDict,
     circuit_breaker_state |-> CLOSED,
     failure_count         |-> 0,
     last_failure_time     |-> NoTime,
     call_stats            |-> [k \in CallType |-> ZeroStats],
     last_429_time         |-> NoTime,
     consecutive_429_count |-> 0,
     global_429_count      |-> NoAttr,
     global_pause_until    |-> NoAttr]

(* Attribute lookup self._global_429_count: the instance dictionary first, *)
(* then the class.                                                         *)
read_global_429_count(self) ==
    IF self.global_429_count = NoAttr THEN class_global_429_count
    ELSE self.global_429_count

read_global_pause_until(self) ==
    IF self.global_pause_until = NoAttr THEN class_global_pause_until
    ELSE self.global_pause_until

DictSet(d, key, val) ==
    [x \in DOMAIN d \cup {key} |-> IF x = key THEN val ELSE d[x]]

DictDel(d, key) == [x \in DOMAIN d \ {key} |-> d[x]]

(* The lookup with the entry already expired at an age of exactly the TTL *)
get_cached_result_expires_at_ttl(self, call_type, t) ==
    IF call_type \notin DOMAIN self.cache THEN None
    ELSE IF t - self.cache[call_type].timestamp >= cache_ttl(call_type) THEN None
    ELSE self.cache[call_type].data

(* _get_cached_result: the value returned *)
get_cached_result(self, call_type, t) ==
    IF call_type \notin DOMAIN self.cache THEN None
    ELSE IF t - self.cache[call_type].timestamp > cache_ttl(call_type) THEN None
    ELSE self.cache[call_type].data

(* _get_cached_result: its effect on self (an expired entry is deleted) *)
after_get_cached_result(self, call_type, t) ==
    IF /\ call_type \in DOMAIN self.cache
       /\ t - self.cache[call_type].timestamp > cache_ttl(call_type)
    THEN [self EXCEPT !.cache = DictDel(@, call_type)]
    ELSE self

cache_result(self, call_type, result, t) ==
    [self EXCEPT !.cache = DictSet(@, call_type, [data |-> result, timestamp |-> t])]

clear_cache(self, call_type) ==
    IF call_type # None
    THEN [self EXCEPT !.cache = DictDel(@, call_type)]
    ELSE [self EXCEPT !.cache = EmptyDict]

should_batch_call(self, call_type, t) ==
    IF call_type = USER_ACTION THEN FALSE
    ELSE IF call_type \notin DOMAIN self.last_call_time THEN FALSE
    ELSE t - self.last_call_time[call_type] < batch_window

(* _rate_limit_call: the interval to keep from the last call of the kind *)
rate_limit_interval(self) ==
    IF self.consecutive_429_count > 0
    THEN min_call_interval * Min(Pow2(self.consecutive_429_count), 8)
    ELSE min_call_interval

(* _is_circuit_breaker_closed: the value returned *)
is_circuit_breaker_closed(self, t) ==
    IF self.circuit_breaker_state = CLOSED THEN TRUE
    ELSE IF self.circuit_breaker_state = OPEN
    THEN /\ self.last_failure_time # NoTime
         /\ t - self.last_failure_time > recovery_timeout
    ELSE TRUE

(* _is_circuit_breaker_closed: its effect on self *)
after_is_circuit_breaker_closed(self, t) ==
    IF /\ self.circuit_breaker_state = OPEN
       /\ self.last_failure_time # NoTime
       /\ t - self.last_failure_time > recovery_timeout
    THEN [self EXCEPT !.circuit_breaker_state = HALF_OPEN]
    ELSE self

(* _handle_call_failure opening the breaker only above the threshold *)
handle_call_failure_above_max(self, t) ==
    LET counted == [self EXCEPT !.failure_count = @ + 1,
                                !.last_failure_time = t]
    IN IF counted.consecutive_429_count > 0 THEN counted
       ELSE IF counted.failure_count > max_failures
       THEN [counted EXCEPT !.circuit_breaker_state = OPEN]
       ELSE counted

(* _handle_call_failure without the early return for rate-limit failures *)
handle_call_failure_counts_429(self, t) ==
    LET counted == [self EXCEPT !.failure_count = @ + 1,
                                !.last_failure_time = t]
    IN IF counted.failure_count >= max_failures
       THEN [counted EXCEPT !.circuit_breaker_state = OPEN]
       ELSE counted

handle_call_failure(self, t) ==
    LET counted == [self EXCEPT !.failure_count = @ + 1,
                                !.last_failure_time = t]
    IN IF counted.consecutive_429_count > 0 THEN counted
       ELSE IF counted.failure_count >= max_failures
       THEN [counted EXCEPT !.circuit_breaker_state = OPEN]
       ELSE counted

(* _reset_circuit_breaker leaving an Open breaker as it is *)
reset_circuit_breaker_keeps_open(self) ==
    IF self.circuit_breaker_state = OPEN
    THEN self
    ELSE [self EXCEPT !.circuit_breaker_state = CLOSED,
                      !.failure_count = 0,
                      !.consecutive_429_count = 0]

reset_circuit_breaker(self) ==
    [self EXCEPT !.circuit_breaker_state = CLOSED,
                 !.failure_count = 0,
                 !.consecutive_429_count = 0]

(* pause_minutes without the cap of 60 minutes *)
pause_minutes_uncapped(count) == 5 * Pow2(Min(count - 1, 4))

(* pause_minutes of _update_global_429_state for a given counter value *)
pause_minutes(count) == Min(5 * Pow2(Min(count - 1, 4)), 60)

(* The report of another outcome than a rate limit leaving the pause *)
update_global_429_state_keeps_pause(self, is_429_error, t) ==
    IF is_429_error
    THEN LET count == read_global_429_count(self) + 1
         IN [self EXCEPT !.global_429_count = count,
                         !.global_pause_until = t + pause_minutes(count) * Minute]
    ELSE [self EXCEPT !.global_429_count = 0]

(* _update_global_429_state, the body run under the lock *)
update_global_429_state(self, is_429_error, t) ==
    IF is_429_error
    THEN LET count == read_global_429_count(self) + 1
         IN [self EXCEPT !.global_429_count = count,
                         !.global_pause_until = t + pause_minutes(count) * Minute]
    ELSE [self EXCEPT !.global_429_count = 0,
                      !.global_pause_until = NoTime]

(* _check_global_429_rate_limit: the condition under which it sleeps *)
global_pause_active(self, t) ==
    /\ read_global_pause_until(self) # NoTime
    /\ t < read_global_pause_until(self)

(* The consecutive-429 count that _calculate_429_delay, _rate_limit_call   *)
(* and _handle_call_failure read for a call of kind call_type: the one     *)
(* attribute _consecutive_429_count of the manager                         *)
consecutive_429_count_of(self, call_type) == self.consecutive_429_count

calculate_429_delay(self, call_type, t) ==
    LET base_delay == get_base_delay(call_type)
        multiplier == Pow2(Min(self.consecutive_429_count, 6))
        delay      == base_delay * multiplier
        doubled    == IF /\ self.last_429_time # NoTime
                         /\ t - self.last_429_time < 120 * Second
                      THEN delay * 2 ELSE delay
    IN Min(doubled, 600 * Second)

backoff_delay_constant(call_type, attempt, frac) ==
    LET delay  == get_base_delay(call_type)
        jitter == (delay * (500 - frac)) \div 10000
    IN Max(0, delay + jitter)

(* The delay of an ordinary failure; frac is loop.time() % 1 in thousandths *)
backoff_delay(call_type, attempt, frac) ==
    LET delay  == get_base_delay(call_type) * Pow2(attempt)
        jitter == (delay * (500 - frac)) \div 10000
    IN Max(0, delay + jitter)

-----------------------------------------------------------------------------
(* Tasks.  A task is one invocation of call_with_retry; its record holds   *)
(* the arguments, the local variables of _execute_call_with_retry and the  *)
(* place where the coroutine is suspended:                                 *)
(*   wait_check   waiting for the lock in _check_global_429_rate_limit     *)
(*   pause_sleep  asyncio.sleep(wait_time), holding the lock               *)
(*   rate_sleep   asyncio.sleep(sleep_time) in _rate_limit_call            *)
(*   in_call      awaiting call_func                                       *)
(*   wait_update  waiting for the lock in _update_global_429_state         *)
(*   retry_sleep  asyncio.sleep(delay) before the next attempt             *)
(* provider_log is not a variable of the program: it lists, in order, what *)
(* the provider did at each invocation made for this call (the error it    *)
(* raised or the payload it returned).                                     *)

Managers == {"m1", "m2"}

Tasks == {"t1", "t2", "t3", "t4", "t5", "t6"}

Payloads == {"A", "B", None}

CIRCUIT_OPEN == "Circuit breaker is open"

API_CALL_FAILED == "API call failed"

(* The value of a local variable the coroutine has not assigned yet *)
NOT_RUN == "not run"

IdleTask ==
    [pc             |-> "idle",
     mgr            |-> "m1",
     call_type      |-> STATE_UPDATE,
     force_refresh  |-> FALSE,
     batched        |-> FALSE,
     attempt        |-> 0,
     invocations    |-> 0,
     last_exception |-> None,
     cached_result  |-> NOT_RUN,
     result         |-> None,
     after          |-> None,
     wake_at        |-> NoTime,
     outcome        |-> None,
     raised         |-> None,
     value          |-> None,
     provider_log   |-> <<>>]

NewCall(m, call_type, force_refresh) ==
    [IdleTask EXCEPT !.mgr = m, !.call_type = call_type,
                     !.force_refresh = force_refresh]

(* `return v` / `raise` out of call_with_retry *)
Return(task, v) ==
    [task EXCEPT !.pc = "done", !.outcome = "returned", !.value = v]

Raise(task, kind, err) ==
    [task EXCEPT !.pc = "done", !.outcome = "raised", !.raised = kind,
                 !.value = err]

(* result = await call_func(...): the provider call is started *)
invoke(task) == [task EXCEPT !.pc = "in_call", !.invocations = @ + 1]

count_stat(self, call_type, field) ==
    [self EXCEPT !.call_stats[call_type][field] = @ + 1]

(* _batch_call up to its first suspension *)
batch_call(self, task, t) ==
    LET time_since_last == t - self.last_call_time[task.call_type]
        min_interval    == rate_limit_interval(self)
    IN IF /\ task.call_type \in DOMAIN self.last_call_time
          /\ time_since_last < min_interval
       THEN [self |-> self,
             task |-> [task EXCEPT !.pc = "rate_sleep", !.batched = TRUE,
                                   !.wake_at = t + (min_interval - time_since_last)]]
       ELSE [self |-> [self EXCEPT !.last_call_time =
                                       DictSet(@, task.call_type, t)],
             task |-> invoke([task EXCEPT !.batched = TRUE])]

(* call_with_retry consulting the cache before the breaker *)
after_clearance_cache_first(self, task, t) ==
    LET k      == task.call_type
        lookup == ~task.force_refresh /\ k # USER_ACTION
        cached == IF lookup THEN get_cached_result(self, k, t) ELSE None
        s1     == IF lookup THEN after_get_cached_result(self, k, t) ELSE self
        looked == IF lookup THEN [task EXCEPT !.cached_result = cached] ELSE task
        s2     == after_is_circuit_breaker_closed(s1, t)
    IN IF cached # None
       THEN [self |-> count_stat(s1, k, "cached"), task |-> Return(looked, cached)]
       ELSE IF ~is_circuit_breaker_closed(s1, t)
       THEN [self |-> s2, task |-> Raise(looked, CIRCUIT_OPEN, None)]
       ELSE IF should_batch_call(s2, k, t)
       THEN batch_call(s2, looked, t)
       ELSE [self |-> s2, task |-> invoke(looked)]

(* call_with_retry consulting the cache whatever force_refresh says *)
after_clearance_ignores_force_refresh(self, task, t) ==
    LET k      == task.call_type
        s1     == after_is_circuit_breaker_closed(self, t)
        lookup == k # USER_ACTION
        cached == IF lookup THEN get_cached_result(s1, k, t) ELSE None
        s2     == IF lookup THEN after_get_cached_result(s1, k, t) ELSE s1
        looked == IF lookup THEN [task EXCEPT !.cached_result = cached] ELSE task
    IN IF ~is_circuit_breaker_closed(self, t)
       THEN [self |-> s1, task |-> Raise(task, CIRCUIT_OPEN, None)]
       ELSE IF cached # None
       THEN [self |-> count_stat(s2, k, "cached"), task |-> Return(looked, cached)]
       ELSE IF should_batch_call(s2, k, t)
       THEN batch_call(s2, looked, t)
       ELSE [self |-> s2, task |-> invoke(looked)]

(* call_with_retry from the breaker check to the first await of call_func  *)
after_clearance(self, task, t) ==
    LET k      == task.call_type
        s1     == after_is_circuit_breaker_closed(self, t)
        lookup == ~task.force_refresh /\ k # USER_ACTION
        cached == IF lookup THEN get_cached_result(s1, k, t) ELSE None
        s2     == IF lookup THEN after_get_cached_result(s1, k, t) ELSE s1
        looked == IF lookup THEN [task EXCEPT !.cached_result = cached] ELSE task
    IN IF ~is_circuit_breaker_closed(self, t)
       THEN [self |-> s1, task |-> Raise(task, CIRCUIT_OPEN, None)]
       ELSE IF cached # None
       THEN [self |-> count_stat(s2, k, "cached"), task |-> Return(looked, cached)]
       ELSE IF should_batch_call(s2, k, t)
       THEN batch_call(s2, looked, t)
       ELSE [self |-> s2, task |-> invoke(looked)]

(* _check_global_429_rate_limit sleeping out the pause without the lock *)
check_global_429_rate_limit_sleeps_unlocked(self, task, t) ==
    IF global_pause_active(self, t)
    THEN [self  |-> self,
          task  |-> [task EXCEPT !.pc = "pause_sleep",
                                 !.wake_at = t + (read_global_pause_until(self) - t)],
          holds |-> FALSE]
    ELSE LET next == after_clearance(self, task, t)
         IN [self |-> next.self, task |-> next.task, holds |-> FALSE]

(* _check_global_429_rate_limit once the lock is held, and what follows it *)
(* up to the next suspension.  holds is TRUE when the task keeps the lock. *)
check_global_429_rate_limit(self, task, t) ==
    IF global_pause_active(self, t)
    THEN [self  |-> self,
          task  |-> [task EXCEPT !.pc = "pause_sleep",
                                 !.wake_at = t + (read_global_pause_until(self) - t)],
          holds |-> TRUE]
    ELSE LET next == after_clearance(self, task, t)
         IN [self |-> next.self, task |-> next.task, holds |-> FALSE]

(* The success path caching the payload of every kind, user action too *)
call_succeeded_caches_every_kind(self, task, t) ==
    LET k  == task.call_type
        s1 == cache_result(self, k, task.result, t)
        s2 == count_stat(s1, k, "success")
    IN IF task.batched
       THEN [self |-> self, task |-> Return(task, task.result)]
       ELSE [self |-> reset_circuit_breaker(s2), task |-> Return(task, task.result)]

(* The success path recording the time of the call in _last_call_time *)
call_succeeded_records_call_time(self, task, t) ==
    LET k  == task.call_type
        s1 == IF k # USER_ACTION THEN cache_result(self, k, task.result, t) ELSE self
        s2 == count_stat(s1, k, "success")
        s3 == [s2 EXCEPT !.last_call_time = DictSet(@, k, t)]
    IN IF task.batched
       THEN [self |-> self, task |-> Return(task, task.result)]
       ELSE [self |-> reset_circuit_breaker(s3), task |-> Return(task, task.result)]

(* call_with_retry after _execute_call_with_retry returned result *)
call_succeeded(self, task, t) ==
    LET k  == task.call_type
        s1 == IF k # USER_ACTION THEN cache_result(self, k, task.result, t) ELSE self
        s2 == count_stat(s1, k, "success")
    IN IF task.batched
       THEN [self |-> self, task |-> Return(task, task.result)]
       ELSE [self |-> reset_circuit_breaker(s2), task |-> Return(task, task.result)]

(* call_with_retry after _execute_call_with_retry raised last_exception *)
call_failed(self, task, t) ==
    IF task.batched
    THEN [self |-> self, task |-> Raise(task, "provider", task.last_exception)]
    ELSE [self |-> handle_call_failure(count_stat(self, task.call_type, "failure"), t),
          task |-> Raise(task, API_CALL_FAILED, task.last_exception)]

(* The delay slept before the next attempt, computed after the 429 state   *)
(* was updated                                                             *)
retry_delay(self, task, t, frac) ==
    IF task.after = "retry_429"
    THEN LET retry_after == RetryAfter[task.last_exception]
         IN IF retry_after # NoTime /\ retry_after # 0
            THEN retry_after * Second
            ELSE calculate_429_delay(self, task.call_type, t)
    ELSE backoff_delay(task.call_type, task.attempt, frac)

(* _update_global_429_state once the lock is held, and what follows it in  *)
(* _execute_call_with_retry / call_with_retry up to the next suspension    *)
after_update(self, task, t, frac) ==
    LET s1 == update_global_429_state(self, task.after = "retry_429", t)
    IN IF task.after = "return"
       THEN call_succeeded(s1, task, t)
       ELSE [self |-> s1,
             task |-> [task EXCEPT !.pc = "retry_sleep",
                                   !.wake_at = t + retry_delay(s1, task, t, frac)]]

(* The except branch keeping the first attempt's error as last_exception *)
attempt_failed_keeps_first(self, task, err, t) ==
    LET k  == task.call_type
        t1 == IF task.last_exception = None
              THEN [task EXCEPT !.last_exception = err]
              ELSE task
    IN IF task.attempt < get_max_retries(k)
       THEN IF Is429[err]
            THEN [self |-> count_stat([self EXCEPT !.consecutive_429_count = @ + 1,
                                                   !.last_429_time = t],
                                      k, "rate_limited"),
                  task |-> [t1 EXCEPT !.after = "retry_429"],
                  done |-> FALSE]
            ELSE [self |-> [self EXCEPT !.consecutive_429_count = 0],
                  task |-> [t1 EXCEPT !.after = "retry"],
                  done |-> FALSE]
       ELSE LET fin == call_failed(self, t1, t)
            IN [self |-> fin.self, task |-> fin.task, done |-> TRUE]

(* except Exception as err: up to `await self._update_global_429_state`    *)
(* (attempt < max_retries) or to the raise of last_exception               *)
attempt_failed(self, task, err, t) ==
    LET k  == task.call_type
        t1 == [task EXCEPT !.last_exception = err]
    IN IF task.attempt < get_max_retries(k)
       THEN IF Is429[err]
            THEN [self |-> count_stat([self EXCEPT !.consecutive_429_count = @ + 1,
                                                   !.last_429_time = t],
                                      k, "rate_limited"),
                  task |-> [t1 EXCEPT !.after = "retry_429"],
                  done |-> FALSE]
            ELSE [self |-> [self EXCEPT !.consecutive_429_count = 0],
                  task |-> [t1 EXCEPT !.after = "retry"],
                  done |-> FALSE]
       ELSE LET fin == call_failed(self, t1, t)
            IN [self |-> fin.self, task |-> fin.task, done |-> TRUE]

-----------------------------------------------------------------------------
(* BatchedDeviceDataUpdateCoordinator (optimized_coordinator.py).  A        *)
(* coordinator is a record of its fields; an invocation of                 *)
(* _async_batched_update is an element of Invocations, and the coroutines  *)
(* it hands to asyncio.gather are the tasks InvTasks assigns to it.        *)

(* The coordinators _setup_coordinators adds: the main one and the one of  *)
(* the bus errors                                                          *)
Coordinators == {"c1", "c2"}

coordinator_call_types(c) ==
    IF c = "c1" THEN <<STATE_UPDATE, FEATURES>> ELSE <<BUS_ERRORS>>

Invocations == {"i1", "i2", "i3"}

InvTasks(i) ==
    CASE i = "i1" -> <<"t1", "t2">>
      [] i = "i2" -> <<"t3", "t4">>
      [] i = "i3" -> <<"t5", "t6">>

BATCH_FAILED == "Batched update failed: All batched calls failed"

NewCoordinator(c) ==
    [call_types             |-> coordinator_call_types(c),
     api_manager            |-> "m1",
     consecutive_failures   |-> 0,
     last_successful_update |-> NoTime,
     last_update_attempt    |-> NoTime,
     is_updating            |-> FALSE,
     update_results         |-> EmptyDict]

(* An invocation of _async_batched_update: where it is and, once it has    *)
(* ended, what it returned or raised                                       *)
IdleCycle ==
    [pc               |-> "idle",
     coord            |-> None,
     status           |-> None,
     successful_calls |-> 0,
     total_calls      |-> 0,
     results          |-> EmptyDict]

(* BatchedDeviceDataUpdateCoordinator.get_result: dict.get *)
get_result(self, call_type) ==
    IF call_type \in DOMAIN self.update_results
    THEN self.update_results[call_type] ELSE None

(* The end of _async_batched_update succeeding only when every kind did *)
batched_update_finish_all_or_nothing(self, results, t) ==
    LET n           == Len(self.call_types)
        succeeded   == {i \in 1..n : results[i].outcome # "raised"}
        kinds       == {self.call_types[i] : i \in succeeded}
        last_of(k)  == CHOOSE i \in succeeded :
                          /\ self.call_types[i] = k
                          /\ \A j \in succeeded : self.call_types[j] = k => j <= i
        new_results == [k \in DOMAIN self.update_results \cup kinds |->
                           IF k \in kinds THEN results[last_of(k)].value
                           ELSE self.update_results[k]]
        success_count == Cardinality(succeeded)
    IN IF success_count = n
       THEN [self |-> [self EXCEPT !.update_results = new_results,
                                   !.consecutive_failures = 0,
                                   !.last_successful_update = t,
                                   !.is_updating = FALSE],
             ret  |-> [status           |-> "success",
                       successful_calls |-> success_count,
                       total_calls      |-> n,
                       results          |-> new_results]]
       ELSE [self |-> [self EXCEPT !.consecutive_failures = @ + 1 + 1,
                                   !.is_updating = FALSE],
             ret  |-> [status           |-> BATCH_FAILED,
                       successful_calls |-> 0,
                       total_calls      |-> n,
                       results          |-> EmptyDict]]

(* _async_batched_update from `results = await asyncio.gather(...)` to its *)
(* end; results[i] is the ended task of call_types[i]                      *)
batched_update_finish(self, results, t) ==
    LET n           == Len(self.call_types)
        succeeded   == {i \in 1..n : results[i].outcome # "raised"}
        kinds       == {self.call_types[i] : i \in succeeded}
        last_of(k)  == CHOOSE i \in succeeded :
                          /\ self.call_types[i] = k
                          /\ \A j \in succeeded : self.call_types[j] = k => j <= i
        new_results == [k \in DOMAIN self.update_results \cup kinds |->
                           IF k \in kinds THEN results[last_of(k)].value
                           ELSE self.update_results[k]]
        success_count == Cardinality(succeeded)
    IN IF success_count > 0
       THEN [self |-> [self EXCEPT !.update_results = new_results,
                                   !.consecutive_failures = 0,
                                   !.last_successful_update = t,
                                   !.is_updating = FALSE],
             ret  |-> [status           |-> "success",
                       successful_calls |-> success_count,
                       total_calls      |-> n,
                       results          |-> new_results]]
       ELSE (* counted at the raise and again in `except Exception` *)
            [self |-> [self EXCEPT !.consecutive_failures = @ + 1 + 1,
                                   !.is_updating = FALSE],
             ret  |-> [status           |-> BATCH_FAILED,
                       successful_calls |-> 0,
                       total_calls      |-> n,
                       results          |-> EmptyDict]]

-----------------------------------------------------------------------------
(* SmartCoordinatorManager (optimized_coordinator.py): _is_running, the    *)
(* tasks start() creates for _run_coordinator, one per coordinator, and    *)
(* the position of stop().                                                 *)

(* The invocation of _async_batched_update that the loop of c is in *)
LoopInv(c) == IF c = "c1" THEN "i1" ELSE "i3"

(* coordinator.update_interval, set from the configured scan intervals *)
update_interval(c) == IF c = "c1" THEN 60 * Second ELSE 120 * Second

(* The sleep of _run_coordinator after a cycle that raised *)
error_cooldown == 30 * Second

NoLoop ==
    [pc           |-> "none",
     wake_at      |-> NoTime,
     cancelled    |-> FALSE,
     cancelled_at |-> None]

NewFleet ==
    [is_running   |-> FALSE,
     stop_pc      |-> "idle",
     loops        |-> [c \in Coordinators |-> NoLoop],
     update_tasks |-> {},
     gathered     |-> {},
     old          |-> [c \in Coordinators |-> NoLoop]]

(* The tasks of the calls that the loops' cycles await *)
LoopTasks ==
    {t \in Tasks : \E c \in Coordinators :
        \E x \in 1..Len(coordinator_call_types(c)) : InvTasks(LoopInv(c))[x] = t}

-----------------------------------------------------------------------------
(* DeviceDataUpdateCoordinator (coordinator.py).  dev holds its fields; an *)
(* element of Updates is an invocation of _async_update_with_retry, whose  *)
(* record holds the loop variable attempt, the place where the coroutine   *)
(* is suspended (in_call: awaiting _async_update_state; retry_sleep:       *)
(* asyncio.sleep(delay)) and what it returned or raised.  calls counts the *)
(* invocations of _async_update_state, log lists their outcomes, sleeps    *)
(* lists the arguments of its asyncio.sleep calls and before is            *)
(* _consecutive_failures as the invocation found it.                       *)

MAX_RETRIES == 3

RETRY_DELAY == 5 * Second

BACKOFF_MULTIPLIER == 2

MAX_CONSECUTIVE_FAILURES == 5

(* The scan_interval_seconds the coordinator is constructed with *)
scan_interval_seconds == 60

RECURSIVE Power(_, _)
Power(b, n) == IF n <= 0 THEN 1 ELSE b * Power(b, n - 1)

Updates == {"u1", "u2"}

NewDevice ==
    [consecutive_failures   |-> 0,
     last_successful_update |-> NoTime,
     last_update_attempt    |-> NoTime,
     is_updating            |-> FALSE]

IdleUpdate ==
    [pc      |-> "idle",
     attempt |-> 0,
     calls   |-> 0,
     log     |-> <<>>,
     status  |-> None,
     raised  |-> None,
     wake_at |-> NoTime,
     sleeps  |-> <<>>,
     before  |-> 0]

(* f"Failed to update {self.device.name} after {MAX_RETRIES + 1} attempts" *)
UpdateFailedMessage == <<"Failed to update ", "device", " after ", MAX_RETRIES + 1, " attempts">>

(* _async_update_state returned: the counter is reset, the status is       *)
(* returned and the finally clause clears the flag                         *)
update_succeeded_keeps_failures(self, upd, t) ==
    [self |-> [self EXCEPT !.last_successful_update = t,
                           !.is_updating = FALSE],
     upd  |-> [upd EXCEPT !.pc = "done", !.status = "success",
                          !.log = Append(@, "returned")]]

update_succeeded(self, upd, t) ==
    [self |-> [self EXCEPT !.consecutive_failures = 0,
                           !.last_successful_update = t,
                           !.is_updating = FALSE],
     upd  |-> [upd EXCEPT !.pc = "done", !.status = "success",
                          !.log = Append(@, "returned")]]

(* except Exception as err: the counter is incremented; the coroutine      *)
(* sleeps RETRY_DELAY * BACKOFF_MULTIPLIER ** attempt, or, on the last     *)
(* attempt, leaves the loop, raises UpdateFailed and clears the flag       *)
update_attempt_failed_retries_on(self, upd, err, t) ==
    LET s1 == [self EXCEPT !.consecutive_failures = @ + 1]
        u1 == [upd EXCEPT !.log = Append(@, err)]
    IN IF upd.attempt <= MAX_RETRIES
       THEN [self |-> s1,
             upd  |-> LET delay == RETRY_DELAY * Power(BACKOFF_MULTIPLIER, upd.attempt)
                      IN [u1 EXCEPT !.pc = "retry_sleep",
                                    !.sleeps = Append(@, delay),
                                    !.wake_at = t + delay]]
       ELSE [self |-> [s1 EXCEPT !.is_updating = FALSE],
             upd  |-> [u1 EXCEPT !.pc = "done", !.status = "failed",
                                 !.raised = UpdateFailedMessage]]

update_attempt_failed_linear(self, upd, err, t) ==
    LET s1 == [self EXCEPT !.consecutive_failures = @ + 1]
        u1 == [upd EXCEPT !.log = Append(@, err)]
    IN IF upd.attempt < MAX_RETRIES
       THEN [self |-> s1,
             upd  |-> LET delay == RETRY_DELAY * (upd.attempt + 1)
                      IN [u1 EXCEPT !.pc = "retry_sleep",
                                    !.sleeps = Append(@, delay),
                                    !.wake_at = t + delay]]
       ELSE [self |-> [s1 EXCEPT !.is_updating = FALSE],
             upd  |-> [u1 EXCEPT !.pc = "done", !.status = "failed",
                                 !.raised = UpdateFailedMessage]]

update_attempt_failed(self, upd, err, t) ==
    LET s1 == [self EXCEPT !.consecutive_failures = @ + 1]
        u1 == [upd EXCEPT !.log = Append(@, err)]
    IN IF upd.attempt < MAX_RETRIES
       THEN [self |-> s1,
             upd  |-> LET delay == RETRY_DELAY * Power(BACKOFF_MULTIPLIER, upd.attempt)
                      IN [u1 EXCEPT !.pc = "retry_sleep",
                                    !.sleeps = Append(@, delay),
                                    !.wake_at = t + delay]]
       ELSE [self |-> [s1 EXCEPT !.is_updating = FALSE],
             upd  |-> [u1 EXCEPT !.pc = "done", !.status = "failed",
                                 !.raised = UpdateFailedMessage]]

(* DeviceDataUpdateCoordinator.is_available, read at time t *)
is_available_ignores_failures(self, t) ==
    IF self.last_successful_update = NoTime
    THEN FALSE
    ELSE LET time_since_success == t - self.last_successful_update
             max_interval       == scan_interval_seconds * Second * 2
         IN time_since_success < max_interval

is_available(self, t) ==
    IF self.last_successful_update = NoTime
    THEN FALSE
    ELSE LET time_since_success == t - self.last_successful_update
             max_interval       == scan_interval_seconds * Second * 2
         IN IF self.consecutive_failures >= MAX_CONSECUTIVE_FAILURES
            THEN FALSE
            ELSE time_since_success < max_interval

-----------------------------------------------------------------------------
(* The class-level asyncio.Lock _global_429_lock, shared by every manager. *)
(* asyncio.Lock is FIFO: acquire() returns at once only when the lock is   *)
(* free and nobody waits; release() wakes the longest waiter.              *)

LockFree == lock.holder = NoTask /\ lock.waiters = <<>>

LockGrantedTo(t) ==
    /\ lock.holder = NoTask
    /\ lock.waiters # <<>>
    /\ Head(lock.waiters) = t

Enqueue(t) == [lock EXCEPT !.waiters = Append(@, t)]

Init ==
    /\ now = 0
    /\ tasks = [t \in Tasks |-> IdleTask]
    /\ lock = [holder |-> NoTask, waiters |-> <<>>]
    /\ mgrs = [m \in Managers |-> NewManager]
    /\ coords = [c \in Coordinators |-> NewCoordinator(c)]
    /\ cycles = [i \in Invocations |-> IdleCycle]
    /\ fleet = NewFleet
    /\ dev = NewDevice
    /\ updates = [u \in Updates |-> IdleUpdate]

(* A consumer calls m.call_with_retry(call_type, call_func, force_refresh) *)
Call(t, m, call_type, force_refresh) ==
    /\ tasks[t].pc \in {"idle", "done"}
    /\ IF LockFree
       THEN LET r == check_global_429_rate_limit(
                         mgrs[m], NewCall(m, call_type, force_refresh), now)
            IN /\ tasks' = [tasks EXCEPT ![t] = r.task]
               /\ mgrs' = [mgrs EXCEPT ![m] = r.self]
               /\ lock' = IF r.holds THEN [lock EXCEPT !.holder = t] ELSE lock
       ELSE /\ tasks' = [tasks EXCEPT ![t] =
                            [NewCall(m, call_type, force_refresh)
                                EXCEPT !.pc = "wait_check"]]
            /\ lock' = Enqueue(t)
            /\ UNCHANGED mgrs
    /\ UNCHANGED now
    /\ UNCHANGED cvars

(* A task queued on the lock in _check_global_429_rate_limit gets it *)
ClearanceLockAcquired(t) ==
    /\ tasks[t].pc = "wait_check"
    /\ LockGrantedTo(t)
    /\ LET m == tasks[t].mgr
           r == check_global_429_rate_limit(mgrs[m], tasks[t], now)
       IN /\ tasks' = [tasks EXCEPT ![t] = r.task]
          /\ mgrs' = [mgrs EXCEPT ![m] = r.self]
          /\ lock' = [holder  |-> IF r.holds THEN t ELSE NoTask,
                      waiters |-> Tail(lock.waiters)]
    /\ UNCHANGED now
    /\ UNCHANGED cvars

(* Under the lock or queued for it: the call to _update_global_429_state   *)
(* made by task (its argument is task.after = "retry_429")                 *)
enter_update(t, self, task, frac) ==
    IF LockFree
    THEN LET r == after_update(self, task, now, frac)
         IN /\ tasks' = [tasks EXCEPT ![t] = r.task]
            /\ mgrs' = [mgrs EXCEPT ![task.mgr] = r.self]
            /\ UNCHANGED lock
    ELSE /\ tasks' = [tasks EXCEPT ![t] = [task EXCEPT !.pc = "wait_update"]]
         /\ mgrs' = [mgrs EXCEPT ![task.mgr] = self]
         /\ lock' = Enqueue(t)

(* call_func returns payload *)
ProviderReturns(t, payload) ==
    /\ tasks[t].pc = "in_call"
    /\ enter_update(t, mgrs[tasks[t].mgr],
                    [tasks[t] EXCEPT !.result = payload, !.after = "return",
                                     !.provider_log = Append(@, payload)], 0)
    /\ UNCHANGED now
    /\ UNCHANGED cvars

(* call_func raises err; frac is loop.time() % 1, in thousandths *)
ProviderRaises(t, err, frac) ==
    /\ tasks[t].pc = "in_call"
    /\ LET m == tasks[t].mgr
           r == attempt_failed(mgrs[m],
                               [tasks[t] EXCEPT !.provider_log = Append(@, err)],
                               err, now)
       IN IF r.done
          THEN /\ tasks' = [tasks EXCEPT ![t] = r.task]
               /\ mgrs' = [mgrs EXCEPT ![m] = r.self]
               /\ UNCHANGED lock
          ELSE enter_update(t, r.self, r.task, frac)
    /\ UNCHANGED now
    /\ UNCHANGED cvars

(* A task queued on the lock in _update_global_429_state gets it *)
UpdateLockAcquired(t, frac) ==
    /\ tasks[t].pc = "wait_update"
    /\ LockGrantedTo(t)
    /\ LET m == tasks[t].mgr
           r == after_update(mgrs[m], tasks[t], now, frac)
       IN /\ tasks' = [tasks EXCEPT ![t] = r.task]
          /\ mgrs' = [mgrs EXCEPT ![m] = r.self]
          /\ lock' = [lock EXCEPT !.waiters = Tail(@)]
    /\ UNCHANGED now
    /\ UNCHANGED cvars

(* asyncio.sleep returning, with the lock of _check_global_429_rate_limit  *)
(* not released after the pause has been waited out                        *)
SleepReturns_keeps_lock(t) ==
    /\ tasks[t].pc \in {"pause_sleep", "rate_sleep", "retry_sleep"}
    /\ now >= tasks[t].wake_at
    /\ LET m    == tasks[t].mgr
           task == [tasks[t] EXCEPT !.wake_at = NoTime]
       IN CASE task.pc = "pause_sleep" ->
                 LET r == after_clearance(
                              [mgrs[m] EXCEPT !.global_pause_until = NoTime],
                              task, now)
                 IN /\ tasks' = [tasks EXCEPT ![t] = r.task]
                    /\ mgrs' = [mgrs EXCEPT ![m] = r.self]
                    /\ UNCHANGED lock
            [] task.pc = "rate_sleep" ->
                 /\ tasks' = [tasks EXCEPT ![t] = invoke(task)]
                 /\ mgrs' = [mgrs EXCEPT ![m].last_call_time =
                                DictSet(@, task.call_type, now)]
                 /\ UNCHANGED lock
            [] task.pc = "retry_sleep" ->
                 /\ tasks' = [tasks EXCEPT ![t] =
                                 invoke([task EXCEPT !.attempt = @ + 1])]
                 /\ UNCHANGED <<mgrs, lock>>
    /\ UNCHANGED now
    /\ UNCHANGED cvars

(* An asyncio.sleep of task t returns (never before its deadline) *)
SleepReturns(t) ==
    /\ tasks[t].pc \in {"pause_sleep", "rate_sleep", "retry_sleep"}
    /\ now >= tasks[t].wake_at
    /\ LET m    == tasks[t].mgr
           task == [tasks[t] EXCEPT !.wake_at = NoTime]
       IN CASE task.pc = "pause_sleep" ->
                 (* self._global_pause_until = None; the lock is released *)
                 LET r == after_clearance(
                              [mgrs[m] EXCEPT !.global_pause_until = NoTime],
                              task, now)
                 IN /\ tasks' = [tasks EXCEPT ![t] = r.task]
                    /\ mgrs' = [mgrs EXCEPT ![m] = r.self]
                    /\ lock' = [lock EXCEPT !.holder = NoTask]
            [] task.pc = "rate_sleep" ->
                 /\ tasks' = [tasks EXCEPT ![t] = invoke(task)]
                 /\ mgrs' = [mgrs EXCEPT ![m].last_call_time =
                                DictSet(@, task.call_type, now)]
                 /\ UNCHANGED lock
            [] task.pc = "retry_sleep" ->
                 /\ tasks' = [tasks EXCEPT ![t] =
                                 invoke([task EXCEPT !.attempt = @ + 1])]
                 /\ UNCHANGED <<mgrs, lock>>
    /\ UNCHANGED now
    /\ UNCHANGED cvars

(* A consumer calls m.clear_cache(call_type); None clears every kind *)
ClearCache(m, call_type) ==
    /\ mgrs' = [mgrs EXCEPT ![m] = clear_cache(@, call_type)]
    /\ UNCHANGED <<now, tasks, lock>>
    /\ UNCHANGED cvars

(* The clock advances by d *)
Tick(d) ==
    /\ now' = now + d
    /\ UNCHANGED <<tasks, lock, mgrs>>
    /\ UNCHANGED cvars

Sleeping == {t \in Tasks : tasks[t].pc \in {"pause_sleep", "rate_sleep", "retry_sleep"}}

(* The clock advances to the earliest deadline of a sleeping task *)
TickToWake ==
    /\ \E t \in Sleeping :
          /\ tasks[t].wake_at > now
          /\ \A u \in Sleeping : tasks[t].wake_at <= tasks[u].wake_at
          /\ now' = tasks[t].wake_at
    /\ UNCHANGED <<tasks, lock, mgrs>>
    /\ UNCHANGED cvars

(* _async_batched_update without the test of the in-progress flag *)
Trigger_unguarded(i, c) ==
    /\ cycles[i].pc \in {"idle", "done"}
    /\ coords' = [coords EXCEPT ![c].is_updating = TRUE,
                                ![c].last_update_attempt = now]
    /\ cycles' = [cycles EXCEPT ![i] =
                     [IdleCycle EXCEPT !.pc = "gathering", !.coord = c]]
    /\ tasks' = [t \in Tasks |->
                    IF \E x \in 1..Len(coords[c].call_types) : InvTasks(i)[x] = t
                    THEN IdleTask ELSE tasks[t]]
    /\ UNCHANGED <<now, lock, mgrs>>
    /\ UNCHANGED dvars

(* _async_batched_update is invoked on coordinator c: it returns "skipped" *)
(* when an update is in progress; otherwise it raises the flag and awaits  *)
(* asyncio.gather over one fresh coroutine per kind                        *)
Trigger(i, c) ==
    /\ cycles[i].pc \in {"idle", "done"}
    /\ IF coords[c].is_updating
       THEN /\ cycles' = [cycles EXCEPT ![i] =
                             [IdleCycle EXCEPT !.pc = "done", !.coord = c,
                                               !.status = "skipped"]]
            /\ UNCHANGED <<coords, tasks>>
       ELSE /\ coords' = [coords EXCEPT ![c].is_updating = TRUE,
                                        ![c].last_update_attempt = now]
            /\ cycles' = [cycles EXCEPT ![i] =
                             [IdleCycle EXCEPT !.pc = "gathering", !.coord = c]]
            /\ tasks' = [t \in Tasks |->
                            IF \E x \in 1..Len(coords[c].call_types) : InvTasks(i)[x] = t
                            THEN IdleTask ELSE tasks[t]]
    /\ UNCHANGED <<now, lock, mgrs>>
    /\ UNCHANGED dvars

(* The event loop starts the coroutine of _execute_single_call for the     *)
(* x-th kind of invocation i: call_with_retry(call_type, update_method,    *)
(* force_refresh=False)                                                    *)
ExecuteSingleCall(i, x) ==
    /\ cycles[i].pc = "gathering"
    /\ x \in 1..Len(coords[cycles[i].coord].call_types)
    /\ tasks[InvTasks(i)[x]].pc = "idle"
    /\ Call(InvTasks(i)[x], coords[cycles[i].coord].api_manager,
            coords[cycles[i].coord].call_types[x], FALSE)

(* The gather returning as soon as one call of the invocation has ended *)
Gathered_at_first_result(i) ==
    /\ cycles[i].pc = "gathering"
    /\ LET c == cycles[i].coord
           n == Len(coords[c].call_types)
       IN /\ \E x \in 1..n : tasks[InvTasks(i)[x]].pc = "done"
          /\ LET r == batched_update_finish(
                          coords[c], [x \in 1..n |-> tasks[InvTasks(i)[x]]], now)
             IN /\ coords' = [coords EXCEPT ![c] = r.self]
                /\ cycles' = [cycles EXCEPT ![i] =
                                 [pc |-> "done", coord |-> c, status |-> r.ret.status,
                                  successful_calls |-> r.ret.successful_calls,
                                  total_calls |-> r.ret.total_calls,
                                  results |-> r.ret.results]]
    /\ UNCHANGED <<now, tasks, lock, mgrs>>
    /\ UNCHANGED dvars

(* asyncio.gather returns: every call of the invocation has ended *)
Gathered(i) ==
    /\ cycles[i].pc = "gathering"
    /\ LET c == cycles[i].coord
           n == Len(coords[c].call_types)
       IN /\ \A x \in 1..n : tasks[InvTasks(i)[x]].pc = "done"
          /\ LET r == batched_update_finish(
                          coords[c], [x \in 1..n |-> tasks[InvTasks(i)[x]]], now)
             IN /\ coords' = [coords EXCEPT ![c] = r.self]
                /\ cycles' = [cycles EXCEPT ![i] =
                                 [pc |-> "done", coord |-> c, status |-> r.ret.status,
                                  successful_calls |-> r.ret.successful_calls,
                                  total_calls |-> r.ret.total_calls,
                                  results |-> r.ret.results]]
    /\ UNCHANGED <<now, tasks, lock, mgrs>>
    /\ UNCHANGED dvars

(* _async_batched_update invoked, or its gather ended, outside the loops   *)
(* of the manager (the first refresh of _setup_coordinators)               *)
DirectTrigger(i, c) == Trigger(i, c) /\ UNCHANGED fleet

DirectGathered(i) == Gathered(i) /\ UNCHANGED fleet

(* SmartCoordinatorManager.start *)
Start ==
    /\ ~fleet.is_running
    /\ fleet' = [fleet EXCEPT !.is_running = TRUE,
                              !.stop_pc = IF @ = "returned" THEN "idle" ELSE @,
                              !.loops = [c \in Coordinators |->
                                            [NoLoop EXCEPT !.pc = "created"]],
                              !.update_tasks = Coordinators,
                              !.old = IF fleet.stop_pc = "awaiting"
                                      THEN [c \in Coordinators |->
                                               IF c \in fleet.gathered
                                               THEN fleet.loops[c] ELSE NoLoop]
                                      ELSE @]
    /\ UNCHANGED <<now, tasks, lock, mgrs, coords, cycles>>
    /\ UNCHANGED dvars

(* _run_coordinator at the head of its while loop: on its first run or     *)
(* when its sleep has ended.  It ends when _is_running is false; otherwise *)
(* it awaits coordinator.async_update(), which returns at once when the    *)
(* cycle is skipped, and then sleeps update_interval.                      *)
LoopIterates(c) ==
    /\ ~fleet.loops[c].cancelled
    /\ \/ fleet.loops[c].pc = "created"
       \/ /\ fleet.loops[c].pc \in {"interval_sleep", "error_sleep"}
          /\ now >= fleet.loops[c].wake_at
    /\ IF ~fleet.is_running
       THEN /\ fleet' = [fleet EXCEPT !.loops[c].pc = "ended",
                                      !.loops[c].wake_at = NoTime]
            /\ UNCHANGED <<now, tasks, lock, mgrs, coords, cycles>>
            /\ UNCHANGED dvars
       ELSE /\ Trigger(LoopInv(c), c)
            /\ fleet' = IF coords[c].is_updating
                        THEN [fleet EXCEPT !.loops[c].pc = "interval_sleep",
                                           !.loops[c].wake_at = now + update_interval(c)]
                        ELSE [fleet EXCEPT !.loops[c].pc = "updating",
                                           !.loops[c].wake_at = NoTime]

(* The loop ending when the cycle it awaited raised *)
LoopCycleEnds_fatal(c) ==
    /\ fleet.loops[c].pc = "updating"
    /\ ~fleet.loops[c].cancelled
    /\ Gathered(LoopInv(c))
    /\ fleet' = IF cycles'[LoopInv(c)].status = BATCH_FAILED
                THEN [fleet EXCEPT !.loops[c].pc = "ended",
                                   !.loops[c].wake_at = NoTime]
                ELSE [fleet EXCEPT !.loops[c].pc = "interval_sleep",
                                   !.loops[c].wake_at = now + update_interval(c)]

(* The cycle awaited by the loop of c ends: the loop sleeps                *)
(* update_interval, or 30 s when the cycle raised                          *)
LoopCycleEnds(c) ==
    /\ fleet.loops[c].pc = "updating"
    /\ ~fleet.loops[c].cancelled
    /\ Gathered(LoopInv(c))
    /\ fleet' = IF cycles'[LoopInv(c)].status = BATCH_FAILED
                THEN [fleet EXCEPT !.loops[c].pc = "error_sleep",
                                   !.loops[c].wake_at = now + error_cooldown]
                ELSE [fleet EXCEPT !.loops[c].pc = "interval_sleep",
                                   !.loops[c].wake_at = now + update_interval(c)]

(* task.cancel() reaching a call of a cancelled cycle, started or not:     *)
(* CancelledError is no Exception, so call_with_retry neither retries nor  *)
(* counts it                                                               *)
cancel_call(task) ==
    IF task.pc = "done" THEN task
    ELSE [task EXCEPT !.pc = "done", !.outcome = "cancelled", !.wake_at = NoTime]

(* SmartCoordinatorManager.stop up to its await: every loop task is        *)
(* cancelled, and through the gather a loop awaits, the calls of its cycle *)
Stop ==
    /\ fleet.is_running
    /\ LET live      == {c \in fleet.update_tasks :
                             fleet.loops[c].pc \notin {"none", "ended"}}
           in_cycle  == {c \in live : fleet.loops[c].pc = "updating"}
           cancelled == {t \in Tasks :
                           /\ tasks[t].pc # "done"
                           /\ \E c \in in_cycle :
                                \E x \in 1..Len(coords[c].call_types) :
                                    InvTasks(LoopInv(c))[x] = t}
       IN /\ fleet' = [fleet EXCEPT
                          !.is_running = FALSE,
                          !.stop_pc = "awaiting",
                          !.gathered = fleet.update_tasks,
                          !.loops = [c \in Coordinators |->
                                        IF c \in live
                                        THEN [fleet.loops[c] EXCEPT
                                                 !.cancelled = TRUE,
                                                 !.cancelled_at = fleet.loops[c].pc]
                                        ELSE fleet.loops[c]]]
          /\ tasks' = [t \in Tasks |->
                          IF t \in cancelled THEN cancel_call(tasks[t]) ELSE tasks[t]]
          /\ lock' = [holder  |-> IF lock.holder \in cancelled THEN NoTask
                                  ELSE lock.holder,
                      waiters |-> SelectSeq(lock.waiters, LAMBDA t : t \notin cancelled)]
    /\ UNCHANGED <<now, mgrs, coords, cycles>>
    /\ UNCHANGED dvars

(* CancelledError ending the loop with no finally clause in the cycle *)
LoopCancelled_keeps_flag(c) ==
    /\ fleet.loops[c].cancelled
    /\ fleet.loops[c].pc # "ended"
    /\ fleet' = [fleet EXCEPT !.loops[c].pc = "ended", !.loops[c].wake_at = NoTime]
    /\ IF fleet.loops[c].pc = "updating"
       THEN /\ cycles' = [cycles EXCEPT ![LoopInv(c)] =
                             [IdleCycle EXCEPT !.pc = "done", !.coord = c,
                                               !.status = "cancelled"]]
            /\ UNCHANGED coords
       ELSE UNCHANGED <<coords, cycles>>
    /\ UNCHANGED <<now, tasks, lock, mgrs>>
    /\ UNCHANGED dvars

(* CancelledError is raised in the loop of c: inside a cycle the finally   *)
(* clause of _async_batched_update clears the flag; the loop ends          *)
LoopCancelled(c) ==
    /\ fleet.loops[c].cancelled
    /\ fleet.loops[c].pc # "ended"
    /\ fleet' = [fleet EXCEPT !.loops[c].pc = "ended", !.loops[c].wake_at = NoTime]
    /\ IF fleet.loops[c].pc = "updating"
       THEN /\ coords' = [coords EXCEPT ![c].is_updating = FALSE]
            /\ cycles' = [cycles EXCEPT ![LoopInv(c)] =
                             [IdleCycle EXCEPT !.pc = "done", !.coord = c,
                                               !.status = "cancelled"]]
       ELSE UNCHANGED <<coords, cycles>>
    /\ UNCHANGED <<now, tasks, lock, mgrs>>
    /\ UNCHANGED dvars

(* The loop task of c that the gather of the suspended stop() awaits: the  *)
(* task stop() cancelled, which start() has replaced in _update_tasks when *)
(* it ran during the await                                                 *)
GatheredLoop(c) == IF fleet.is_running THEN fleet.old[c] ELSE fleet.loops[c]

(* CancelledError is raised in a loop of c that start() has replaced in    *)
(* _update_tasks while stop() awaits it                                    *)
OldLoopCancelled(c) ==
    /\ fleet.old[c].cancelled
    /\ fleet.old[c].pc # "ended"
    /\ fleet' = [fleet EXCEPT !.old[c].pc = "ended", !.old[c].wake_at = NoTime]
    /\ IF fleet.old[c].pc = "updating"
       THEN /\ coords' = [coords EXCEPT ![c].is_updating = FALSE]
            /\ cycles' = [cycles EXCEPT ![LoopInv(c)] =
                             [IdleCycle EXCEPT !.pc = "done", !.coord = c,
                                               !.status = "cancelled"]]
       ELSE UNCHANGED <<coords, cycles>>
    /\ UNCHANGED <<now, tasks, lock, mgrs>>
    /\ UNCHANGED dvars

StopReturns_without_await ==
    /\ fleet.stop_pc = "awaiting"
    /\ fleet' = [fleet EXCEPT !.stop_pc = "returned", !.update_tasks = {},
                              !.gathered = {}]
    /\ UNCHANGED <<now, tasks, lock, mgrs, coords, cycles>>
    /\ UNCHANGED dvars

(* The gather awaited by stop() ends: every loop task has ended *)
StopReturns ==
    /\ fleet.stop_pc = "awaiting"
    /\ \A c \in fleet.gathered : GatheredLoop(c).pc \in {"none", "ended"}
    /\ fleet' = [fleet EXCEPT !.stop_pc = "returned", !.update_tasks = {},
                              !.gathered = {}]
    /\ UNCHANGED <<now, tasks, lock, mgrs, coords, cycles>>
    /\ UNCHANGED dvars

(* The clock advances to the earliest deadline of a sleeping call or loop *)
Deadlines ==
    {tasks[t].wake_at : t \in Sleeping}
    \cup {fleet.loops[c].wake_at :
             c \in {d \in Coordinators :
                       fleet.loops[d].pc \in {"interval_sleep", "error_sleep"}}}

TickToDeadline ==
    /\ \E d \in Deadlines :
          /\ d > now
          /\ \A e \in Deadlines : d <= e
          /\ now' = d
    /\ UNCHANGED <<tasks, lock, mgrs>>
    /\ UNCHANGED cvars

(* The frame of the actions of the device coordinator *)
UpdateFrame ==
    UNCHANGED <<tasks, lock, mgrs, coords, cycles, fleet>>

(* _async_update_with_retry is invoked: skipped while an update is in      *)
(* progress; otherwise up to the first await self._async_update_state()    *)
UpdateStarts(u) ==
    /\ updates[u].pc \in {"idle", "done"}
    /\ IF dev.is_updating
       THEN /\ updates' = [updates EXCEPT ![u] =
                              [IdleUpdate EXCEPT !.pc = "done", !.status = "skipped",
                                                 !.before = dev.consecutive_failures]]
            /\ UNCHANGED dev
       ELSE /\ dev' = [dev EXCEPT !.is_updating = TRUE,
                                  !.last_update_attempt = now]
            /\ updates' = [updates EXCEPT ![u] =
                              [IdleUpdate EXCEPT !.pc = "in_call", !.calls = 1,
                                                 !.before = dev.consecutive_failures]]
    /\ UNCHANGED now
    /\ UpdateFrame

(* _async_update_state returns *)
UpdateStateReturns(u) ==
    /\ updates[u].pc = "in_call"
    /\ LET r == update_succeeded(dev, updates[u], now)
       IN /\ dev' = r.self
          /\ updates' = [updates EXCEPT ![u] = r.upd]
    /\ UNCHANGED now
    /\ UpdateFrame

(* _async_update_state raises err *)
UpdateStateRaises(u, err) ==
    /\ updates[u].pc = "in_call"
    /\ LET r == update_attempt_failed(dev, updates[u], err, now)
       IN /\ dev' = r.self
          /\ updates' = [updates EXCEPT ![u] = r.upd]
    /\ UNCHANGED now
    /\ UpdateFrame

(* asyncio.sleep(delay) returns: the next attempt invokes                  *)
(* _async_update_state                                                     *)
UpdateSleepReturns(u) ==
    /\ updates[u].pc = "retry_sleep"
    /\ now >= updates[u].wake_at
    /\ updates' = [updates EXCEPT ![u].pc = "in_call",
                                  ![u].attempt = @ + 1,
                                  ![u].calls = @ + 1,
                                  ![u].wake_at = NoTime]
    /\ UNCHANGED <<now, dev>>
    /\ UpdateFrame

(* CancelledError is raised in _async_update_with_retry at the await it is *)
(* suspended in, the update call or the sleep between attempts: it is no   *)
(* Exception, so no failure is counted; the finally clause clears the flag *)
UpdateCancelled(u) ==
    /\ updates[u].pc \in {"in_call", "retry_sleep"}
    /\ dev' = [dev EXCEPT !.is_updating = FALSE]
    /\ updates' = [updates EXCEPT ![u].pc = "done",
                                  ![u].status = "cancelled",
                                  ![u].wake_at = NoTime]
    /\ UNCHANGED now
    /\ UpdateFrame

(* The clock advances to the deadline of the sleeping update *)
UpdateTick ==
    /\ \E u \in Updates :
          /\ updates[u].pc = "retry_sleep"
          /\ updates[u].wake_at > now
          /\ now' = updates[u].wake_at
    /\ UNCHANGED dvars
    /\ UpdateFrame

-----------------------------------------------------------------------------
(* Bounds of the explored behaviours: the calls one manager may be asked   *)
(* to make in each specification.                                          *)

MaxCalls == 2

MaxCacheCalls == 2

MaxRetryCalls == 1

MaxFailedCalls == 6

MaxWaitMinutes == 3

MaxRateLimitedCalls == 6

(* Calls of manager m counted in its statistics or still in flight *)
RECURSIVE SumStats(_, _)
SumStats(stats, kinds) ==
    IF kinds = {} THEN 0
    ELSE LET k == CHOOSE x \in kinds : TRUE
         IN stats[k].success + stats[k].failure + stats[k].cached
            + SumStats(stats, kinds \ {k})

InFlight(m) ==
    Cardinality({t \in Tasks : tasks[t].pc \notin {"idle", "done"} /\ tasks[t].mgr = m})

CallsOf(m) == SumStats(mgrs[m].call_stats, CallType) + InFlight(m)

-----------------------------------------------------------------------------
(* Spec: two managers in one process, each with one consumer: task t1     *)
(* calls manager m1 and task t3 calls manager m2.  The clock takes its     *)
(* values in Instants; a sleeping task wakes at the first instant not      *)
(* before its deadline.                                                    *)

SpecTasks == {"t1", "t3"}

ManagerOf(t) == IF t = "t3" THEN "m2" ELSE "m1"

Instants == {0, 1 * Minute, 3 * Minute, 6 * Minute}

Next ==
    \/ \E t \in SpecTasks, k \in {FEATURES}, f \in BOOLEAN :
          /\ CallsOf(ManagerOf(t)) < MaxCalls
          /\ Call(t, ManagerOf(t), k, f)
    \/ \E t \in SpecTasks : ClearanceLockAcquired(t)
    \/ \E t \in SpecTasks, p \in {"A"} : ProviderReturns(t, p)
    \/ \E t \in SpecTasks, e \in {E_TIMEOUT, E_429}, frac \in {500} :
          ProviderRaises(t, e, frac)
    \/ \E t \in SpecTasks, frac \in {500} : UpdateLockAcquired(t, frac)
    \/ \E t \in SpecTasks : SleepReturns(t)
    \/ \E i \in Instants : i > now /\ Tick(i - now)

Spec == Init /\ [][Next]_vars

-----------------------------------------------------------------------------
(* SpecCache: one consumer of one manager; every provider call succeeds.   *)
(* The instants sit on both sides of every kind's time-to-live.            *)

CacheInstants == {0, 2 * Minute, 5 * Minute, 6 * Minute, 30 * Minute,
                  60 * Minute, 240 * Minute, 241 * Minute}

NextCache ==
    \/ \E k \in CallType, f \in BOOLEAN :
          /\ CallsOf("m1") < MaxCacheCalls
          /\ Call("t1", "m1", k, f)
    \/ \E p \in Payloads : ProviderReturns("t1", p)
    \/ \E k \in {STATE_UPDATE, None} : ClearCache("m1", k)
    \/ \E i \in CacheInstants : i > now /\ Tick(i - now)

SpecCache == Init /\ [][NextCache]_vars

-----------------------------------------------------------------------------
(* SpecRetry: one call at a time on one manager, of any kind, against a    *)
(* provider that may raise any of the error messages.                      *)

RetryInstants == {0, 1 * Minute, 2 * Minute, 10 * Minute, 70 * Minute, 140 * Minute}

NextRetry ==
    \/ \E k \in CallType, f \in {FALSE} :
          /\ CallsOf("m1") < MaxRetryCalls
          /\ Call("t1", "m1", k, f)
    \/ \E p \in {"A", "B"} : ProviderReturns("t1", p)
    \/ \E e \in {E_TIMEOUT, E_429, E_RATE_LIMIT, E_RETRY_AFTER}, frac \in {0, 900} :
          ProviderRaises("t1", e, frac)
    \/ SleepReturns("t1")
    \/ \E i \in RetryInstants : i > now /\ Tick(i - now)

SpecRetry == Init /\ [][NextRetry]_vars

-----------------------------------------------------------------------------
(* SpecFailing: one consumer of one manager whose provider fails every     *)
(* attempt with an ordinary (non-rate-limit) error.  The clock advances to *)
(* the deadline of the sleeping task, and by whole minutes, up to          *)
(* MaxWaitMinutes after the last failure, while the breaker is not closed. *)

NextFailing ==
    \/ \E k \in {STATE_UPDATE, FEATURES}, f \in BOOLEAN :
          /\ CallsOf("m1") < MaxFailedCalls
          /\ Call("t1", "m1", k, f)
    \/ \E frac \in {0, 900} : ProviderRaises("t1", E_TIMEOUT, frac)
    \/ SleepReturns("t1")
    \/ TickToWake
    \/ /\ mgrs["m1"].circuit_breaker_state # CLOSED
       /\ tasks["t1"].pc \in {"idle", "done"}
       /\ now - mgrs["m1"].last_failure_time < MaxWaitMinutes * Minute
       /\ Tick(Minute)

SpecFailing == Init /\ [][NextFailing]_vars

-----------------------------------------------------------------------------
(* SpecRateLimited: two consumers of one manager whose provider fails      *)
(* every attempt with a rate-limit error.  The clock advances to the next  *)
(* deadline of a sleeping task.                                            *)

NextRateLimited ==
    \/ \E t \in {"t1", "t2"}, k \in {FEATURES}, f \in {FALSE} :
          /\ CallsOf("m1") < MaxRateLimitedCalls
          /\ Call(t, "m1", k, f)
    \/ \E t \in {"t1", "t2"} : ClearanceLockAcquired(t)
    \/ \E t \in {"t1", "t2"}, e \in {E_429, E_RETRY_AFTER} : ProviderRaises(t, e, 0)
    \/ \E t \in {"t1", "t2"} : UpdateLockAcquired(t, 0)
    \/ \E t \in {"t1", "t2"} : SleepReturns(t)
    \/ TickToWake

SpecRateLimited == Init /\ [][NextRateLimited]_vars

-----------------------------------------------------------------------------
(* SpecBreaker: one consumer of one manager whose provider answers feature *)
(* calls with a payload (at most MaxBreakerSuccesses times) or an ordinary *)
(* error; once the breaker is Open, calls of every kind are made, with and *)
(* without force_refresh.  The clock advances as in SpecFailing.           *)

MaxBreakerCalls == 7

MaxBreakerSuccesses == 1

Successes(m) ==
    LET stats == mgrs[m].call_stats
    IN stats[STATE_UPDATE].success + stats[BUS_ERRORS].success
       + stats[ENERGY_DATA].success + stats[FEATURES].success
       + stats[USER_ACTION].success

NextBreaker ==
    \/ \E k \in CallType, f \in BOOLEAN :
          /\ k = FEATURES \/ mgrs["m1"].circuit_breaker_state = OPEN
          /\ CallsOf("m1") < MaxBreakerCalls
          /\ Call("t1", "m1", k, f)
    \/ /\ Successes("m1") < MaxBreakerSuccesses
       /\ ProviderReturns("t1", "A")
    \/ ProviderRaises("t1", E_TIMEOUT, 500)
    \/ SleepReturns("t1")
    \/ TickToWake
    \/ /\ mgrs["m1"].circuit_breaker_state # CLOSED
       /\ tasks["t1"].pc \in {"idle", "done"}
       /\ now - mgrs["m1"].last_failure_time < MaxWaitMinutes * Minute
       /\ Tick(Minute)

SpecBreaker == Init /\ [][NextBreaker]_vars

-----------------------------------------------------------------------------
(* SpecLive: consumers t1 and t2 of manager m1 and consumer t3 of manager  *)
(* m2.  Every provider answers with a payload; t1's may also answer with a *)
(* rate-limit error.                                                       *)
(* Every provider invocation terminates, the event loop runs every task    *)
(* that is ready (a granted lock, an elapsed sleep), and the clock reaches *)
(* the next deadline of a sleeping task.                                   *)

MaxLiveCalls == 3

LiveTasks == {"t1", "t2", "t3"}

ProviderAnswers(t) ==
    \/ ProviderReturns(t, "A")
    \/ t = "t1" /\ ProviderRaises(t, E_429, 0)

NextLive ==
    \/ \E t \in LiveTasks :
          /\ CallsOf(ManagerOf(t)) < MaxLiveCalls
          /\ Call(t, ManagerOf(t), FEATURES, FALSE)
    \/ \E t \in LiveTasks : ClearanceLockAcquired(t)
    \/ \E t \in LiveTasks : ProviderAnswers(t)
    \/ \E t \in LiveTasks : UpdateLockAcquired(t, 0)
    \/ \E t \in LiveTasks : SleepReturns(t)
    \/ TickToWake

SpecLive ==
    /\ Init
    /\ [][NextLive]_vars
    /\ \A t \in LiveTasks :
          /\ WF_vars(ClearanceLockAcquired(t))
          /\ WF_vars(ProviderAnswers(t))
          /\ WF_vars(UpdateLockAcquired(t, 0))
          /\ WF_vars(SleepReturns(t))
    /\ WF_vars(TickToWake)

-----------------------------------------------------------------------------
(* SpecBatch: coordinator c1 runs batch cycles over its two kinds on       *)
(* manager m1; each provider call returns a payload or raises an ordinary  *)
(* error.  A cycle may be triggered while another is in flight.            *)

MaxBatchCalls == 3

NextBatch ==
    \/ \E i \in {"i1", "i2"} :
          /\ CallsOf("m1") < MaxBatchCalls
          /\ DirectTrigger(i, "c1")
    \/ \E i \in {"i1", "i2"}, x \in 1..2 : ExecuteSingleCall(i, x)
    \/ \E i \in {"i1", "i2"} : DirectGathered(i)
    \/ \E t \in Tasks, p \in {"A", "B"} : ProviderReturns(t, p)
    \/ \E t \in Tasks : ProviderRaises(t, E_TIMEOUT, 500)
    \/ \E t \in Tasks : SleepReturns(t)
    \/ TickToWake

SpecBatch == Init /\ [][NextBatch]_vars

-----------------------------------------------------------------------------
(* SpecFleet: the manager is started once, as _setup_coordinators does,    *)
(* with one loop per coordinator (c1 and c2, both on manager m1), and is   *)
(* stopped at any moment.  A provider call returns a payload; the call of  *)
(* c2 may also raise an ordinary error.                                    *)

MaxFleetCalls == 3

NextFleet ==
    \/ /\ fleet.stop_pc = "idle"
       /\ Start
    \/ Stop
    \/ StopReturns
    \/ \E c \in Coordinators :
          /\ CallsOf("m1") < MaxFleetCalls \/ ~fleet.is_running
          /\ LoopIterates(c)
    \/ \E c \in Coordinators : LoopCycleEnds(c)
    \/ \E c \in Coordinators : LoopCancelled(c)
    \/ \E c \in Coordinators, x \in 1..2 : ExecuteSingleCall(LoopInv(c), x)
    \/ \E t \in LoopTasks : ProviderReturns(t, "A")
    \/ ProviderRaises(InvTasks(LoopInv("c2"))[1], E_TIMEOUT, 500)
    \/ \E t \in LoopTasks : SleepReturns(t)
    \/ TickToDeadline

SpecFleet == Init /\ [][NextFleet]_vars

-----------------------------------------------------------------------------
(* SpecInFlight: consumers t1 and t2 of manager m1 make feature calls with *)
(* force_refresh, so that calls overlap.  The provider fails every attempt *)
(* of t1 with an ordinary error and answers t2 with a payload.  The clock  *)
(* advances to the deadline of a sleeping task, and by whole minutes while *)
(* the breaker is not closed.                                              *)

MaxInFlightCalls == 7

NextInFlight ==
    \/ \E t \in {"t1", "t2"} :
          /\ CallsOf("m1") < MaxInFlightCalls
          /\ Call(t, "m1", FEATURES, TRUE)
    \/ ProviderReturns("t2", "A")
    \/ ProviderRaises("t1", E_TIMEOUT, 500)
    \/ \E t \in {"t1", "t2"} : SleepReturns(t)
    \/ TickToWake
    \/ /\ mgrs["m1"].circuit_breaker_state # CLOSED
       /\ Sleeping = {}
       /\ now - mgrs["m1"].last_failure_time < MaxWaitMinutes * Minute
       /\ Tick(Minute)

SpecInFlight == Init /\ [][NextInFlight]_vars

-----------------------------------------------------------------------------
(* SpecBackoff: one consumer of one manager makes calls of every kind with *)
(* force_refresh; the provider answers with a payload or raises an         *)
(* ordinary error, at the least, the middle and the greatest value of      *)
(* loop.time() % 1.  The clock advances to the deadline of the sleeper.    *)

MaxBackoffCalls == 1

NextBackoff ==
    \/ \E k \in CallType :
          /\ CallsOf("m1") < MaxBackoffCalls
          /\ Call("t1", "m1", k, TRUE)
    \/ ProviderReturns("t1", "A")
    \/ \E frac \in {0, 500, 999} : ProviderRaises("t1", E_TIMEOUT, frac)
    \/ SleepReturns("t1")
    \/ TickToWake

SpecBackoff == Init /\ [][NextBackoff]_vars

-----------------------------------------------------------------------------
(* SpecDevice: the device coordinator is updated again and again, also     *)
(* while an update is in progress, until MaxUpdateSeconds; each invocation *)
(* of the update function returns or raises.                               *)

MaxUpdateSeconds == 60

NextDevice ==
    \/ \E u \in Updates :
          /\ now < MaxUpdateSeconds * Second
          /\ UpdateStarts(u)
    \/ \E u \in Updates : UpdateStateReturns(u)
    \/ \E u \in Updates : UpdateStateRaises(u, E_TIMEOUT)
    \/ \E u \in Updates : UpdateSleepReturns(u)
    \/ UpdateTick

SpecDevice == Init /\ [][NextDevice]_vars

-----------------------------------------------------------------------------
(* SpecAvailable: the updates of SpecDevice, and whole minutes passing     *)
(* while no update sleeps, up to MaxIdleMinutes.                           *)

MaxIdleMinutes == 3

NextAvailable ==
    \/ NextDevice
    \/ /\ now < MaxIdleMinutes * Minute
       /\ \A u \in Updates : updates[u].pc # "retry_sleep"
       /\ Tick(Minute)

SpecAvailable == Init /\ [][NextAvailable]_vars

-----------------------------------------------------------------------------
(* SpecKinds: consumer t1 makes state-update calls and consumer t2 feature *)
(* calls on manager m1, with force_refresh.  The provider of t1 returns a  *)
(* payload or raises a rate-limit or an ordinary error; the provider of t2 *)
(* raises a rate-limit error on every attempt.                             *)

MaxKindCalls == 3

KindOf(t) == IF t = "t1" THEN STATE_UPDATE ELSE FEATURES

NextKinds ==
    \/ \E t \in {"t1", "t2"} :
          /\ CallsOf("m1") < MaxKindCalls
          /\ Call(t, "m1", KindOf(t), TRUE)
    \/ \E t \in {"t1", "t2"} : ClearanceLockAcquired(t)
    \/ ProviderReturns("t1", "A")
    \/ \E t \in {"t1", "t2"} : ProviderRaises(t, E_429, 500)
    \/ ProviderRaises("t1", E_TIMEOUT, 500)
    \/ \E t \in {"t1", "t2"} : UpdateLockAcquired(t, 500)
    \/ \E t \in {"t1", "t2"} : SleepReturns(t)
    \/ TickToWake

SpecKinds == Init /\ [][NextKinds]_vars

-----------------------------------------------------------------------------
(* SpecSpacing: consumers t1 and t2 of manager m1 make feature calls with  *)
(* force_refresh, one after another or overlapping.  The provider answers  *)
(* with a payload in the instant it is invoked: the clock advances, by     *)
(* steps of five seconds, only while no provider call is in flight, so the *)
(* timestamp of a cache entry is also the time at which the provider call  *)
(* that filled it was started.                                             *)

MaxSpacingCalls == 3

MaxSpacingSeconds == 30

NextSpacing ==
    \/ \E t \in {"t1", "t2"} :
          /\ CallsOf("m1") < MaxSpacingCalls
          /\ Call(t, "m1", FEATURES, TRUE)
    \/ \E t \in {"t1", "t2"} : ProviderReturns(t, "A")
    \/ /\ InFlight("m1") = 0
       /\ now < MaxSpacingSeconds * Second
       /\ Tick(5 * Second)

SpecSpacing == Init /\ [][NextSpacing]_vars

-----------------------------------------------------------------------------
(* SpecEffects: one consumer of manager m1 makes calls of every kind, with *)
(* and without force_refresh, one after another.  The provider returns a   *)
(* payload or raises an ordinary error.  The clock advances to the         *)
(* deadline of the sleeping call.                                          *)

MaxEffectCalls == 2

NextEffects ==
    \/ \E k \in CallType, f \in BOOLEAN :
          /\ CallsOf("m1") < MaxEffectCalls
          /\ Call("t1", "m1", k, f)
    \/ \E p \in {"A", "B"} : ProviderReturns("t1", p)
    \/ ProviderRaises("t1", E_TIMEOUT, 500)
    \/ SleepReturns("t1")
    \/ TickToWake

SpecEffects == Init /\ [][NextEffects]_vars

-----------------------------------------------------------------------------
(* SpecResults: coordinator c1 (state update and features on manager m1)   *)
(* is refreshed again and again through invocation i1; between two cycles  *)
(* a consumer may call coordinator.force_refresh(), which clears the cache *)
(* of the manager.  The provider of the state update returns a payload or  *)
(* raises an ordinary error; the provider of the features returns.         *)

MaxResultCalls == 4

NextResults ==
    \/ /\ CallsOf("m1") < MaxResultCalls
       /\ DirectTrigger("i1", "c1")
    \/ \E x \in 1..2 : ExecuteSingleCall("i1", x)
    \/ DirectGathered("i1")
    \/ \E t \in {"t1", "t2"}, p \in {"A", "B"} : ProviderReturns(t, p)
    \/ ProviderRaises("t1", E_TIMEOUT, 500)
    \/ SleepReturns("t1")
    \/ TickToWake
    \/ /\ cycles["i1"].pc = "done"
       /\ mgrs["m1"].cache # EmptyDict
       /\ ClearCache("m1", None)

SpecResults == Init /\ [][NextResults]_vars

-----------------------------------------------------------------------------
(* SpecLoop: the manager is started and never stopped; its loops run c1    *)
(* and c2.  Besides the loop of c2, invocation i2 refreshes c2 directly    *)
(* (the first refresh of _setup_coordinators), so that a cycle of the loop *)
(* may be skipped.  The provider of the loop's call of c2 returns a        *)
(* payload or raises an ordinary error; the other providers return.        *)

MaxLoopCalls == 3

MaxLoopSeconds == 300

NextLoop ==
    \/ Start
    \/ \E c \in Coordinators :
          /\ CallsOf("m1") < MaxLoopCalls
          /\ now < MaxLoopSeconds * Second
          /\ LoopIterates(c)
    \/ \E c \in Coordinators : LoopCycleEnds(c)
    \/ \E c \in Coordinators, x \in 1..2 : ExecuteSingleCall(LoopInv(c), x)
    \/ /\ CallsOf("m1") < MaxLoopCalls
       /\ DirectTrigger("i2", "c2")
    \/ ExecuteSingleCall("i2", 1)
    \/ DirectGathered("i2")
    \/ \E t \in LoopTasks \cup {"t3"} : ProviderReturns(t, "A")
    \/ ProviderRaises(InvTasks(LoopInv("c2"))[1], E_TIMEOUT, 500)
    \/ SleepReturns(InvTasks(LoopInv("c2"))[1])
    \/ TickToDeadline

SpecLoop == Init /\ [][NextLoop]_vars

-----------------------------------------------------------------------------
(* SpecMixed: one consumer of manager m1 makes state-update calls with     *)
(* force_refresh; the provider returns a payload or raises a rate-limit or *)
(* an ordinary error.  The clock advances to the deadline of the sleeper.  *)

MaxMixedCalls == 2

NextMixed ==
    \/ /\ CallsOf("m1") < MaxMixedCalls
       /\ Call("t1", "m1", STATE_UPDATE, TRUE)
    \/ ProviderReturns("t1", "A")
    \/ \E e \in {E_429, E_TIMEOUT} : ProviderRaises("t1", e, 500)
    \/ SleepReturns("t1")
    \/ TickToWake

SpecMixed == Init /\ [][NextMixed]_vars

-----------------------------------------------------------------------------
(* SpecOpening: on manager m1, one call at a time, consumer t1 makes       *)
(* state-update calls, every attempt of which the provider answers with a  *)
(* rate-limit error, and consumer t2 makes feature calls, every attempt of *)
(* which the provider fails with an ordinary error.  No call succeeds.     *)
(* The clock advances to the deadline of the sleeper.                      *)

MaxOpeningCalls == 5

NextOpening ==
    \/ \E t \in {"t1", "t2"} :
          /\ CallsOf("m1") < MaxOpeningCalls
          /\ InFlight("m1") = 0
          /\ Call(t, "m1", KindOf(t), TRUE)
    \/ ProviderRaises("t1", E_429, 500)
    \/ ProviderRaises("t2", E_TIMEOUT, 500)
    \/ \E t \in {"t1", "t2"} : SleepReturns(t)
    \/ TickToWake

SpecOpening == Init /\ [][NextOpening]_vars

-----------------------------------------------------------------------------
(* SpecRestart: start() and stop() of one manager are called in any order, *)
(* start() also while a stop() is suspended in its gather (one stop() at a *)
(* time).  A loop created by such a start() takes its first step when the  *)
(* cancelled loop of its coordinator has ended.  Providers return.         *)

MaxRestartCalls == 2

NextRestart ==
    \/ Start
    \/ /\ fleet.stop_pc # "awaiting"
       /\ Stop
    \/ StopReturns
    \/ \E c \in Coordinators :
          /\ CallsOf("m1") < MaxRestartCalls \/ ~fleet.is_running
          /\ fleet.old[c].pc \in {"none", "ended"}
          /\ LoopIterates(c)
    \/ \E c \in Coordinators : LoopCycleEnds(c)
    \/ \E c \in Coordinators : LoopCancelled(c)
    \/ \E c \in Coordinators : OldLoopCancelled(c)
    \/ \E c \in Coordinators, x \in 1..2 : ExecuteSingleCall(LoopInv(c), x)
    \/ \E t \in LoopTasks : ProviderReturns(t, "A")
    \/ TickToDeadline

SpecRestart == Init /\ [][NextRestart]_vars

-----------------------------------------------------------------------------
(* Vocabulary of the properties *)

Last(seq) == seq[Len(seq)]

(* The step is taken by task t, which ran the cache lookup of              *)
(* call_with_retry in it (a hit changes the statistics, a miss the task)   *)
LookupRan(t) ==
    /\ tasks[t].pc \in {"idle", "done", "wait_check", "pause_sleep"}
    /\ tasks'[t].cached_result # NOT_RUN
    /\ \/ tasks'[t] # tasks[t]
       \/ mgrs'[tasks'[t].mgr].call_stats # mgrs[tasks'[t].mgr].call_stats

(* The step is one in which call_func, awaited by task t, returned or raised *)
ProviderAnswered(t) == tasks[t].pc = "in_call" /\ tasks'[t].pc # "in_call"

(* The step is one in which task t starts an invocation of call_func *)
ProviderInvoked(t) == tasks[t].pc # "in_call" /\ tasks'[t].pc = "in_call"

FailedCalls(m) ==
    LET stats == mgrs[m].call_stats
    IN stats[STATE_UPDATE].failure + stats[BUS_ERRORS].failure
       + stats[ENERGY_DATA].failure + stats[FEATURES].failure
       + stats[USER_ACTION].failure

-----------------------------------------------------------------------------
(* C1.  Cache TTL: for every kind k with ttl(k) > 0, a payload v stored    *)
(* for k by a successful call is what a lookup of k returns while          *)
(* now - capturedAt <= ttl(k), the entry staying as it is; a lookup once   *)
(* now - capturedAt > ttl(k) returns absent (None) and leaves the cache    *)
(* without an entry for k.                                                 *)
C1_CacheTTL ==
    [][\A t \in Tasks :
         LET m    == tasks'[t].mgr
             k    == tasks'[t].call_type
             self == mgrs[m]
         IN /\ (/\ ProviderAnswered(t)
                /\ tasks'[t].outcome = "returned"
                /\ cache_ttl(k) > 0)
               => /\ k \in DOMAIN mgrs'[m].cache
                  /\ mgrs'[m].cache[k] = [data |-> tasks'[t].value, timestamp |-> now]
            /\ (/\ LookupRan(t)
                /\ k \in DOMAIN self.cache
                /\ cache_ttl(k) > 0)
               => IF now - self.cache[k].timestamp <= cache_ttl(k)
                  THEN /\ tasks'[t].cached_result = self.cache[k].data
                       /\ k \in DOMAIN mgrs'[m].cache
                       /\ mgrs'[m].cache[k] = self.cache[k]
                  ELSE /\ tasks'[t].cached_result = None
                       /\ k \notin DOMAIN mgrs'[m].cache
      ]_vars

(* A lookup returned the stored payload exactly ttl(k) after it was stored *)
C1_Witness ==
    /\ tasks["t1"].pc = "done"
    /\ tasks["t1"].call_type = BUS_ERRORS
    /\ tasks["t1"].cached_result = "B"
    /\ tasks["t1"].value = "B"
    /\ BUS_ERRORS \in DOMAIN mgrs["m1"].cache
    /\ now - mgrs["m1"].cache[BUS_ERRORS].timestamp = cache_ttl(BUS_ERRORS)

(* C2.  Kind state, ttl 5 minutes: once a call has succeeded with a        *)
(* payload A, a call of the same kind without force_refresh made no more   *)
(* than 5 minutes later (at t = 2m) returns A without invoking the         *)
(* provider and adds one to the cached-hit counter; one made later than    *)
(* that (at t = 6m) invokes the provider again.                            *)
C2_StateScenario ==
    [][\A t \in Tasks :
         LET m    == tasks'[t].mgr
             self == mgrs[m]
         IN (/\ LookupRan(t)
             /\ tasks'[t].call_type = STATE_UPDATE
             /\ STATE_UPDATE \in DOMAIN self.cache
             /\ self.cache[STATE_UPDATE].data # None)
            => IF now - self.cache[STATE_UPDATE].timestamp <= 5 * Minute
               THEN /\ tasks'[t].pc = "done"
                    /\ tasks'[t].outcome = "returned"
                    /\ tasks'[t].value = self.cache[STATE_UPDATE].data
                    /\ tasks'[t].invocations = 0
                    /\ mgrs'[m].call_stats[STATE_UPDATE].cached
                          = self.call_stats[STATE_UPDATE].cached + 1
               ELSE /\ tasks'[t].pc = "in_call"
                    /\ tasks'[t].invocations = 1
      ]_vars

(* The call at t = 2m, answered from the entry stored at t = 0 *)
C2_Witness ==
    /\ now = 2 * Minute
    /\ STATE_UPDATE \in DOMAIN mgrs["m1"].cache
    /\ mgrs["m1"].cache[STATE_UPDATE] = [data |-> "A", timestamp |-> 0]
    /\ tasks["t1"].pc = "done"
    /\ tasks["t1"].call_type = STATE_UPDATE
    /\ tasks["t1"].outcome = "returned"
    /\ tasks["t1"].value = "A"
    /\ tasks["t1"].invocations = 0
    /\ mgrs["m1"].call_stats[STATE_UPDATE].cached = 1

(* C3.  Circuit breaker threshold: starting Closed with counter 0, while   *)
(* fewer than 5 calls in a row have failed on every attempt with an        *)
(* ordinary error the breaker is Closed (so it is after 4); from the 5th   *)
(* on it is not Closed, and it is Open until a call arrives more than      *)
(* 2 minutes after the last failure; a call made while it is Open and no   *)
(* more than 2 minutes have passed is refused without a provider call.     *)
C3_BreakerThreshold ==
    [][LET self  == mgrs["m1"]
           after == mgrs'["m1"]
       IN /\ FailedCalls("m1")' < 5 => after.circuit_breaker_state = CLOSED
          /\ FailedCalls("m1")' >= 5 => after.circuit_breaker_state # CLOSED
          /\ after.circuit_breaker_state = HALF_OPEN
                => now - after.last_failure_time > 2 * Minute
          /\ \A t \in Tasks :
               (/\ tasks[t].pc \in {"idle", "done"}
                /\ tasks'[t] # tasks[t]
                /\ self.circuit_breaker_state = OPEN
                /\ now - self.last_failure_time <= 2 * Minute)
               => /\ tasks'[t].pc = "done"
                  /\ tasks'[t].outcome = "raised"
                  /\ tasks'[t].raised = CIRCUIT_OPEN
                  /\ tasks'[t].invocations = 0
                  /\ after = self
      ]_vars

(* Five failed calls, the breaker Open, and the next call refused *)
C3_Witness ==
    /\ FailedCalls("m1") = 5
    /\ mgrs["m1"].failure_count = 5
    /\ mgrs["m1"].circuit_breaker_state = OPEN
    /\ now - mgrs["m1"].last_failure_time <= 2 * Minute
    /\ tasks["t1"].pc = "done"
    /\ tasks["t1"].raised = CIRCUIT_OPEN
    /\ tasks["t1"].invocations = 0

(* C4.  When every attempt of every call reports rate-limiting, the        *)
(* breaker never becomes Open, however many calls fail in a row.           *)
C4_RateLimitNeverOpens ==
    mgrs["m1"].circuit_breaker_state = CLOSED

(* Six calls have failed on rate-limiting alone and the breaker is Closed *)
C4_Witness ==
    /\ FailedCalls("m1") >= 6
    /\ mgrs["m1"].call_stats[FEATURES].rate_limited >= 6
    /\ mgrs["m1"].circuit_breaker_state = CLOSED

(* C5.  A call that fails with rate-limiting errors on all its attempts    *)
(* leaves the breaker's failure counter and state as they were.            *)
C5_RateLimitLeavesCounter ==
    [][\A t \in Tasks :
         (/\ ProviderAnswered(t)
          /\ tasks'[t].pc = "done"
          /\ tasks'[t].outcome = "raised"
          /\ \A i \in 1..Len(tasks'[t].provider_log) :
                 tasks'[t].provider_log[i] \in Errors
                 /\ Is429[tasks'[t].provider_log[i]])
         => /\ mgrs'[tasks[t].mgr].failure_count = mgrs[tasks[t].mgr].failure_count
            /\ mgrs'[tasks[t].mgr].circuit_breaker_state
                  = mgrs[tasks[t].mgr].circuit_breaker_state
      ]_vars

(* The pause, in minutes, that the n-th consecutive rate-limit report sets *)
EscalatedPause(n) == Min(5 * Pow2(n - 1), 60)

(* The step is one in which task t reported an attempt's outcome to        *)
(* _update_global_429_state                                                *)
Reported(t) ==
    /\ tasks[t].pc \in {"in_call", "wait_update"}
    /\ \/ tasks'[t].pc = "retry_sleep"
       \/ tasks'[t].pc = "done" /\ tasks'[t].outcome = "returned"

(* C6.  Global cooldown escalation, as the reporting manager sees it: a    *)
(* rate-limit report that follows n - 1 consecutive ones makes the         *)
(* counter n and sets pausedUntil to now + min(5 * 2^(n-1), 60) minutes    *)
(* (5, 10, 20, 40, 60, 60, ...); a success report sets the counter to 0    *)
(* and clears pausedUntil.                                                 *)
C6_PauseEscalation ==
    [][\A t \in Tasks :
         LET self  == mgrs[tasks[t].mgr]
             after == mgrs'[tasks[t].mgr]
             n     == read_global_429_count(self) + 1
         IN Reported(t) =>
              /\ (tasks'[t].pc = "retry_sleep" /\ Is429[tasks'[t].last_exception])
                 => /\ read_global_429_count(after) = n
                    /\ read_global_pause_until(after) = now + EscalatedPause(n) * Minute
              /\ tasks'[t].pc = "done"
                 => /\ read_global_429_count(after) = 0
                    /\ read_global_pause_until(after) = NoTime
      ]_vars

(* The fifth consecutive report, before the fifth retry of a user command: *)
(* the pause of 80 minutes is capped at 60                                 *)
C6_Witness ==
    /\ tasks["t1"].pc = "retry_sleep"
    /\ tasks["t1"].attempt = 4
    /\ read_global_429_count(mgrs["m1"]) = 5
    /\ read_global_pause_until(mgrs["m1"]) = now + 60 * Minute

(* C7.  The cooldown state is shared by all managers of the process: the   *)
(* consecutive-rate-limit counter and pausedUntil that one manager reads   *)
(* are those every other manager reads.                                    *)
C7_CooldownShared ==
    \A a, b \in Managers :
        /\ read_global_429_count(mgrs[a]) = read_global_429_count(mgrs[b])
        /\ read_global_pause_until(mgrs[a]) = read_global_pause_until(mgrs[b])

(* C8.  No provider operation is invoked, on a first attempt or on a       *)
(* retry, at a time when pausedUntil is set and now < pausedUntil.         *)
C8_NoCallDuringPause ==
    [][\A t \in Tasks :
         ProviderInvoked(t) => ~global_pause_active(mgrs'[tasks'[t].mgr], now)
      ]_vars

(* The attempts one run of the retry engine may make, by kind *)
AttemptLimit(call_type) ==
    CASE call_type = STATE_UPDATE -> 4
      [] call_type = BUS_ERRORS   -> 3
      [] call_type = ENERGY_DATA  -> 3
      [] call_type = FEATURES     -> 2
      [] call_type = USER_ACTION  -> 6

(* C9.  Retry bound: one call invokes the provider at most                 *)
(* maxRetries(kind) + 1 times (state 4, error log 3, metering 3, feature   *)
(* discovery 2, user command 6); every attempt before a successful one     *)
(* failed, the successful one is the last and its payload is returned;     *)
(* the call fails only after all maxRetries(kind) + 1 attempts failed, and *)
(* then carries the error of the last attempt.                             *)
C9_RetryBound ==
    \A t \in Tasks :
        LET task == tasks[t]
            log  == task.provider_log
        IN task.pc # "idle" =>
             /\ task.invocations <= AttemptLimit(task.call_type)
             /\ Len(log) <= task.invocations
             /\ \A i \in 1..Len(log) :
                    log[i] \in Payloads
                    => /\ i = Len(log)
                       /\ task.invocations = i
                       /\ task.pc \in {"wait_update", "done"}
                       /\ task.pc = "done"
                          => task.outcome = "returned" /\ task.value = log[i]
             /\ (task.pc = "done" /\ task.outcome = "returned" /\ task.invocations > 0)
                => Len(log) = task.invocations /\ Last(log) \in Payloads
             /\ (task.pc = "done" /\ task.raised = API_CALL_FAILED)
                => /\ task.invocations = AttemptLimit(task.call_type)
                   /\ Len(log) = task.invocations
                   /\ \A i \in 1..Len(log) : log[i] \in Errors
                   /\ task.value = Last(log)

(* A user command failed after six attempts whose last error differs from  *)
(* the first                                                               *)
C9_Witness ==
    /\ tasks["t1"].pc = "done"
    /\ tasks["t1"].call_type = USER_ACTION
    /\ tasks["t1"].raised = API_CALL_FAILED
    /\ tasks["t1"].invocations = 6
    /\ tasks["t1"].provider_log[1] = E_429
    /\ tasks["t1"].provider_log[6] = E_TIMEOUT
    /\ tasks["t1"].value = E_TIMEOUT

(* The provider's answers so far fit "three errors containing 429, then a  *)
(* payload"                                                                *)
ThreeRateLimitsThenSuccess(task) ==
    /\ task.pc # "idle"
    /\ task.call_type = STATE_UPDATE
    /\ task.invocations >= 1
    /\ Len(task.provider_log) <= 4
    /\ \A i \in 1..Len(task.provider_log) :
          IF i <= 3
          THEN /\ task.provider_log[i] \in Errors
               /\ Contains(ErrorStr(task.provider_log[i]), <<"4", "2", "9">>)
          ELSE task.provider_log[i] \in Payloads

(* C10.  Kind state, the provider failing three times with an error        *)
(* containing 429 and then succeeding: the call is still retrying after    *)
(* the third failure, succeeds on the 4th attempt and returns that         *)
(* attempt's payload, and the breaker's failure counter, 0 at the start,   *)
(* is 0 in every state of the run.                                         *)
C10_ThreeRateLimitsThenSuccess ==
    [][\A t \in Tasks :
         LET task == tasks'[t]
             log  == task.provider_log
         IN ThreeRateLimitsThenSuccess(task) =>
              /\ mgrs[task.mgr].failure_count = 0
                 => mgrs'[task.mgr].failure_count = 0
              /\ Len(log) <= 3 => task.pc # "done"
              /\ (Len(log) = 4 /\ task.pc = "done")
                 => /\ task.outcome = "returned"
                    /\ task.value = log[4]
                    /\ task.invocations = 4
                    /\ mgrs'[task.mgr].failure_count = 0
      ]_vars

(* The run has ended: three 429 errors, then payload B on the 4th attempt *)
C10_Witness ==
    /\ tasks["t1"].pc = "done"
    /\ tasks["t1"].call_type = STATE_UPDATE
    /\ tasks["t1"].provider_log = <<E_429, E_RETRY_AFTER, E_429, "B">>
    /\ tasks["t1"].outcome = "returned"
    /\ tasks["t1"].value = "B"
    /\ mgrs["m1"].failure_count = 0

(* The step is one in which task t passed _check_global_429_rate_limit and *)
(* call_with_retry consulted the breaker                                   *)
BreakerConsulted(t) ==
    /\ tasks[t].pc \in {"idle", "done", "wait_check", "pause_sleep"}
    /\ tasks'[t] # tasks[t]
    /\ tasks'[t].pc \notin {"wait_check", "pause_sleep"}

(* C11.  When the breaker refuses a call (Open, and no more than the       *)
(* 2-minute recovery timeout since the last failure), the call fails at    *)
(* once with the circuit-open error: the provider is not invoked, nothing  *)
(* is retried, the cache is not consulted and the manager is left as it    *)
(* was, for every kind, with or without force_refresh, with or without a   *)
(* fresh cache entry of the kind.                                          *)
C11_RefusedFailsFast ==
    [][\A t \in Tasks :
         LET self == mgrs[tasks'[t].mgr]
         IN (/\ BreakerConsulted(t)
             /\ self.circuit_breaker_state = OPEN
             /\ now - self.last_failure_time <= 2 * Minute)
            => /\ tasks'[t].pc = "done"
               /\ tasks'[t].outcome = "raised"
               /\ tasks'[t].raised = CIRCUIT_OPEN
               /\ tasks'[t].invocations = 0
               /\ tasks'[t].provider_log = <<>>
               /\ tasks'[t].cached_result = NOT_RUN
               /\ mgrs'[tasks'[t].mgr] = self
      ]_vars

(* A feature call without force_refresh is refused although the cache      *)
(* holds a fresh entry for the kind                                        *)
C11_Witness ==
    /\ mgrs["m1"].circuit_breaker_state = OPEN
    /\ now - mgrs["m1"].last_failure_time <= 2 * Minute
    /\ FEATURES \in DOMAIN mgrs["m1"].cache
    /\ now - mgrs["m1"].cache[FEATURES].timestamp <= cache_ttl(FEATURES)
    /\ tasks["t1"].pc = "done"
    /\ tasks["t1"].call_type = FEATURES
    /\ ~tasks["t1"].force_refresh
    /\ tasks["t1"].raised = CIRCUIT_OPEN
    /\ tasks["t1"].invocations = 0

(* C12.  No call raises without having been counted: the step in which a   *)
(* call ends by raising (circuit open or retries exhausted) increments a   *)
(* counter of the call's kind in the statistics.                           *)
C12_RaisedIsCounted ==
    [][\A t \in Tasks :
         (/\ tasks'[t] # tasks[t]
          /\ tasks'[t].pc = "done"
          /\ tasks'[t].outcome = "raised")
         => LET k      == tasks'[t].call_type
                before == mgrs[tasks'[t].mgr].call_stats[k]
                after  == mgrs'[tasks'[t].mgr].call_stats[k]
            IN \/ after.failure > before.failure
               \/ after.rate_limited > before.rate_limited
               \/ after.success > before.success
               \/ after.cached > before.cached
      ]_vars

(* C13.  No call is silently dropped: when every provider invocation       *)
(* terminates and time advances, every call in progress eventually ends,   *)
(* returning a payload or raising, also while other calls of the same or   *)
(* of another manager wait out a pause or hold the shared lock.            *)
C13_EveryCallEnds ==
    \A t \in LiveTasks :
        (tasks[t].pc \notin {"idle", "done"})
            ~> (tasks[t].pc = "done" /\ tasks[t].outcome \in {"returned", "raised"})

(* t1 waits out its manager's pause holding the shared lock while a call   *)
(* of the same manager and a call of the other manager are queued on it    *)
C13_Witness ==
    /\ tasks["t1"].pc = "pause_sleep"
    /\ lock.holder = "t1"
    /\ tasks["t2"].pc \in {"wait_check", "wait_update"}
    /\ tasks["t3"].pc \in {"wait_check", "wait_update"}

(* The step is one in which invocation i of _async_batched_update ends     *)
(* after its gather                                                        *)
CycleEnded(i) == cycles[i].pc = "gathering" /\ cycles'[i].pc = "done"

(* The positions of invocation i's kinds whose call returned a payload *)
SucceededKinds(i) ==
    {x \in 1..Len(coords[cycles[i].coord].call_types) :
        tasks[InvTasks(i)[x]].outcome = "returned"}

(* C14.  Batch partial success: a cycle in which at least one kind's call  *)
(* succeeded ends with status success, a result map that holds the payload *)
(* of every kind that succeeded and the count of the successes; it raises  *)
(* the batch-failed error if and only if every kind's call failed.         *)
C14_BatchPartialSuccess ==
    [][\A i \in Invocations :
         CycleEnded(i) =>
            LET kinds == coords[cycles[i].coord].call_types
                ended == cycles'[i]
            IN /\ SucceededKinds(i) # {}
                  => /\ ended.status = "success"
                     /\ ended.successful_calls = Cardinality(SucceededKinds(i))
                     /\ ended.total_calls = Len(kinds)
                     /\ \A x \in SucceededKinds(i) :
                           /\ kinds[x] \in DOMAIN ended.results
                           /\ ended.results[kinds[x]] = tasks[InvTasks(i)[x]].value
               /\ ended.status = BATCH_FAILED <=> SucceededKinds(i) = {}
      ]_vars

(* A cycle of two kinds has ended in success with one kind failed and the  *)
(* other kind's payload in the result map                                  *)
C14_Witness ==
    /\ cycles["i1"].pc = "done"
    /\ cycles["i1"].status = "success"
    /\ cycles["i1"].successful_calls = 1
    /\ cycles["i1"].total_calls = 2
    /\ tasks["t1"].outcome = "raised"
    /\ tasks["t2"].outcome = "returned"
    /\ tasks["t2"].value = "B"
    /\ DOMAIN cycles["i1"].results = {FEATURES}
    /\ cycles["i1"].results[FEATURES] = "B"

(* C15.  No overlapping cycles: an invocation of the batch cycle made      *)
(* while a cycle of the same coordinator is in flight returns the status   *)
(* skipped, starts no call and leaves the coordinator, its in-progress     *)
(* flag included, as it was; at most one invocation per coordinator is     *)
(* ever executing its per-kind calls.                                      *)
C15_NoOverlappingCycles ==
    [][/\ \A i \in Invocations :
            (/\ cycles[i].pc \in {"idle", "done"}
             /\ cycles'[i] # cycles[i]
             /\ coords[cycles'[i].coord].is_updating)
            => /\ cycles'[i].pc = "done"
               /\ cycles'[i].status = "skipped"
               /\ tasks' = tasks
               /\ mgrs' = mgrs
               /\ coords' = coords
       /\ \A i, j \in Invocations :
            (/\ cycles'[i].pc = "gathering"
             /\ cycles'[j].pc = "gathering"
             /\ cycles'[i].coord = cycles'[j].coord)
            => i = j
      ]_vars

(* A second invocation was skipped while the first awaits its calls *)
C15_Witness ==
    /\ cycles["i1"].pc = "gathering"
    /\ tasks["t1"].pc = "retry_sleep"
    /\ tasks["t2"].pc = "in_call"
    /\ cycles["i2"].pc = "done"
    /\ cycles["i2"].status = "skipped"
    /\ coords["c1"].is_updating

(* C16: when stop() of the coordinator manager has returned, every loop  *)
(* it had started has ended and no call of a loop's cycle is in flight,    *)
(* wherever the loop was suspended; afterwards no loop starts a cycle and  *)
(* no call of a loop takes a step.                                         *)
C16_StopEndsEveryLoop ==
    [][/\ fleet'.stop_pc = "returned" =>
            /\ \A c \in Coordinators : fleet'.loops[c].pc \in {"none", "ended"}
            /\ \A t \in LoopTasks : tasks'[t].pc \in {"idle", "done"}
            /\ \A c \in Coordinators : cycles'[LoopInv(c)].pc # "gathering"
       /\ fleet.stop_pc = "returned" =>
            /\ \A t \in LoopTasks : tasks'[t] = tasks[t]
            /\ coords' = coords
            /\ cycles' = cycles
            /\ mgrs' = mgrs]_vars

(* stop() has returned after cancelling the loop of c1 inside a cycle,     *)
(* with a call of the cycle in flight, and the loop of c2 in its 30 s      *)
(* cooldown                                                                *)
C16_Witness ==
    /\ fleet.stop_pc = "returned"
    /\ fleet.loops["c1"].cancelled_at = "updating"
    /\ fleet.loops["c2"].cancelled_at = "error_sleep"
    /\ \E t \in LoopTasks : tasks[t].outcome = "cancelled"

(* C17: while the breaker of a manager is Open and no more than the        *)
(* recovery timeout (2 minutes) has passed since its last failure, the     *)
(* breaker stays Open and every call that consults it is refused, whatever *)
(* calls of the manager are in flight.                                     *)
C17_OpenUntilRecovery ==
    [][\A m \in Managers :
         (/\ mgrs[m].circuit_breaker_state = OPEN
          /\ now - mgrs[m].last_failure_time <= recovery_timeout)
         => /\ mgrs'[m].circuit_breaker_state = OPEN
            /\ \A t \in Tasks :
                 (BreakerConsulted(t) /\ tasks'[t].mgr = m)
                 => /\ tasks'[t].pc = "done"
                    /\ tasks'[t].raised = CIRCUIT_OPEN
      ]_vars

(* The step is one in which task t starts the sleep that follows an        *)
(* attempt failed with an ordinary error                                   *)
BackoffStarts(t) ==
    /\ tasks[t].pc # "retry_sleep"
    /\ tasks'[t].pc = "retry_sleep"
    /\ tasks'[t].after = "retry"

(* C18: the delay slept after the ordinary failure of attempt n of a call  *)
(* of kind k is baseDelay(k) * 2^n perturbed by the jitter, which is at    *)
(* most a twentieth of it: with the jitter left out it is exactly          *)
(* baseDelay(k) * 2^n, it is greater than the delay of attempt n - 1, and  *)
(* it is no greater than the delay of the last retry of the kind,          *)
(* baseDelay(k) * 2^(maxRetries(k) - 1), which is at most 16 s, below the  *)
(* 600 s that cap the delays of this manager.                              *)
C18_BackoffMonotone ==
    [][\A t \in Tasks :
         BackoffStarts(t) =>
            LET k       == tasks'[t].call_type
                n       == tasks'[t].attempt
                d       == tasks'[t].wake_at - now
                nominal == get_base_delay(k) * Pow2(n)
                mid     == backoff_delay(k, n, 500)
            IN /\ mid = nominal
               /\ 20 * d >= 19 * nominal
               /\ 20 * d <= 21 * nominal
               /\ n > 0 => /\ d > backoff_delay(k, n - 1, 0)
                           /\ mid > backoff_delay(k, n - 1, 500)
               /\ n < get_max_retries(k)
               /\ mid <= get_base_delay(k) * Pow2(get_max_retries(k) - 1)
               /\ mid <= 16 * Second
               /\ d <= 600 * Second
      ]_vars

(* A user action sleeps 16 s after its fifth failed attempt *)
C18_Witness ==
    /\ tasks["t1"].pc = "retry_sleep"
    /\ tasks["t1"].after = "retry"
    /\ tasks["t1"].call_type = USER_ACTION
    /\ tasks["t1"].attempt = 4
    /\ Len(tasks["t1"].provider_log) = 5
    /\ tasks["t1"].wake_at - now = 16 * Second

(* C19: an update of the device coordinator invokes the update function   *)
(* at most MAX_RETRIES + 1 = 4 times.  It returns the success status at    *)
(* the first invocation that returns, and invokes nothing after it; when   *)
(* four invocations have raised it raises UpdateFailed, "after 4           *)
(* attempts", having invoked the update function exactly 4 times.          *)
C19_UpdateRetryBound ==
    \A u \in Updates :
        LET upd    == updates[u]
            n      == Len(upd.log)
            raises == {i \in 1..n : upd.log[i] # "returned"}
        IN /\ upd.calls <= 4
           /\ upd.calls = n + (IF upd.pc = "in_call" THEN 1 ELSE 0)
           /\ \A i \in 1..n : upd.log[i] = "returned" => i = n
           /\ upd.status = "success"
                <=> (n > 0 /\ upd.log[n] = "returned")
           /\ upd.status = "success" => upd.pc = "done" /\ upd.raised = None
           /\ upd.status = "failed" <=> Cardinality(raises) = 4
           /\ upd.status = "failed"
                => /\ upd.pc = "done"
                   /\ upd.calls = 4
                   /\ upd.raised = <<"Failed to update ", "device", " after ", 4, " attempts">>
           /\ upd.status = "skipped" => upd.calls = 0

(* One update has raised after four failed invocations, another has        *)
(* succeeded at its second                                                 *)
C19_Witness ==
    /\ updates["u1"].status = "failed"
    /\ updates["u1"].calls = 4
    /\ updates["u2"].status = "success"
    /\ updates["u2"].calls = 2

(* The step is one in which an invocation of the update function by        *)
(* update u raises                                                         *)
UpdateAttemptFailed(u) ==
    /\ updates[u].pc = "in_call"
    /\ Len(updates'[u].log) = Len(updates[u].log) + 1
    /\ Last(updates'[u].log) # "returned"

(* The step is one in which an invocation of the update function by        *)
(* update u returns                                                        *)
UpdateAttemptSucceeded(u) ==
    /\ updates[u].pc = "in_call"
    /\ Len(updates'[u].log) = Len(updates[u].log) + 1
    /\ Last(updates'[u].log) = "returned"

(* C20: consecutive_failures of the device coordinator counts the failed   *)
(* attempts since the last success: every failed attempt adds 1 and        *)
(* nothing else raises it, so that an update whose four attempts fail      *)
(* leaves it 4 above the value it found; an attempt that succeeds leaves   *)
(* it at 0, whatever it was and however many attempts of the update had    *)
(* failed.                                                                 *)
C20_ConsecutiveFailures ==
    [][/\ \A u \in Updates :
            /\ UpdateAttemptFailed(u)
                 => /\ dev'.consecutive_failures = dev.consecutive_failures + 1
                    /\ dev'.consecutive_failures
                          = updates[u].before + Len(updates'[u].log)
                    /\ updates'[u].status = "failed"
                          => dev'.consecutive_failures = updates[u].before + 4
            /\ UpdateAttemptSucceeded(u) => dev'.consecutive_failures = 0
       /\ dev'.consecutive_failures # dev.consecutive_failures
            => \E u \in Updates : UpdateAttemptFailed(u) \/ UpdateAttemptSucceeded(u)
      ]_vars

(* An update that found the counter at 4 has succeeded after a failed      *)
(* attempt, and the counter is 0                                           *)
C20_Witness ==
    /\ updates["u2"].status = "success"
    /\ updates["u2"].before = 4
    /\ Len(updates["u2"].log) = 2
    /\ updates["u1"].status = "failed"
    /\ dev.consecutive_failures = 0

(* The failed invocations of the update function in the log of an update *)
FailedAttempts(upd) == {i \in 1..Len(upd.log) : upd.log[i] # "returned"}

(* C21: an update of the device coordinator sleeps once after each failed  *)
(* attempt but the fourth, for 5, 10 and 20 seconds after attempts 0, 1    *)
(* and 2, and the next attempt waits for the whole of it; it sleeps        *)
(* neither after an attempt that succeeds nor after the fourth failure.    *)
C21_UpdateBackoff ==
    [][\A u \in Updates :
         LET upd   == updates'[u]
             fails == Cardinality(FailedAttempts(upd))
         IN /\ Len(upd.sleeps) = Min(fails, 3)
            /\ \A i \in 1..Len(upd.sleeps) :
                 upd.sleeps[i] = (CASE i = 1 -> 5 [] i = 2 -> 10 [] i = 3 -> 20) * Second
            /\ upd.pc = "retry_sleep"
                 <=> (upd.wake_at # NoTime /\ upd.status = None
                      /\ Len(upd.sleeps) = Len(upd.log))
            /\ (updates[u].pc # "retry_sleep" /\ upd.pc = "retry_sleep")
                 => upd.wake_at = now + Last(upd.sleeps)
            /\ (updates[u].pc = "retry_sleep" /\ upd.pc # "retry_sleep")
                 => now >= updates[u].wake_at
            /\ upd.status \in {"success", "failed"}
                 => upd.pc = "done" /\ upd.wake_at = updates[u].wake_at
      ]_vars

(* An update has slept 5, 10 and 20 seconds and its fourth attempt has     *)
(* failed; another has slept 5 and 10 seconds and its third has succeeded  *)
C21_Witness ==
    /\ updates["u1"].status = "failed"
    /\ updates["u1"].sleeps = <<5 * Second, 10 * Second, 20 * Second>>
    /\ updates["u2"].status = "success"
    /\ updates["u2"].sleeps = <<5 * Second, 10 * Second>>

(* C22: is_available of the device coordinator is true exactly when an    *)
(* update has succeeded, fewer than 5 consecutive failed attempts have     *)
(* accumulated and less than 2 update intervals (of 60 s) have passed      *)
(* since the last success; so it is false before the first success and     *)
(* while a retrying update has pushed consecutive_failures to 5 or more.   *)
C22_Availability ==
    /\ is_available(dev, now)
         <=> /\ dev.last_successful_update # NoTime
             /\ dev.consecutive_failures < 5
             /\ now - dev.last_successful_update < 120 * Second
    /\ dev.last_successful_update = NoTime => ~is_available(dev, now)
    /\ dev.consecutive_failures >= 5 => ~is_available(dev, now)

(* Less than two intervals after a success, an update is retrying and its  *)
(* failed attempts have brought the counter to 5: the device is not        *)
(* available                                                               *)
C22_Witness ==
    /\ dev.last_successful_update # NoTime
    /\ now - dev.last_successful_update < 120 * Second
    /\ dev.consecutive_failures = 5
    /\ \E u \in Updates : updates[u].pc = "retry_sleep"
    /\ ~is_available(dev, now)

(* The step is one in which the call of task t ends returning the payload *)
(* its provider returned                                                   *)
CallSucceeded(t) ==
    /\ tasks[t].pc \in {"in_call", "wait_update"}
    /\ tasks'[t].pc = "done"
    /\ tasks'[t].outcome = "returned"

(* C23: a call that ends with the payload of its provider leaves the       *)
(* breaker of its manager Closed with failure counter 0, whatever the      *)
(* breaker was when the call was admitted and whatever it had become       *)
(* while the call was in flight.                                           *)
C23_SuccessCloses ==
    [][\A t \in Tasks :
         CallSucceeded(t)
            => /\ mgrs'[tasks[t].mgr].circuit_breaker_state = CLOSED
               /\ mgrs'[tasks[t].mgr].failure_count = 0
      ]_vars

(* Five calls have failed and opened the breaker; the only call that       *)
(* succeeded ended more than 2 minutes after the last failure, and the     *)
(* breaker is Closed with counter 0                                        *)
C23_Witness ==
    /\ FailedCalls("m1") = 5
    /\ Successes("m1") = 1
    /\ tasks["t2"].pc = "done"
    /\ tasks["t2"].outcome = "returned"
    /\ now - mgrs["m1"].last_failure_time > recovery_timeout
    /\ mgrs["m1"].circuit_breaker_state = CLOSED
    /\ mgrs["m1"].failure_count = 0

(* The step is one in which a call of task t ends counted as a failure *)
CallFailed(t) ==
    /\ tasks[t].pc \notin {"idle", "done"}
    /\ tasks'[t].pc = "done"
    /\ tasks'[t].raised = API_CALL_FAILED

(* C24: once the recovery timeout has moved the breaker to HalfOpen, which *)
(* admits the trial call, no further call passes the breaker check while   *)
(* the breaker is HalfOpen: a call that consults it is refused; and the    *)
(* failure of a call while the breaker is HalfOpen returns it to Open.     *)
C24_OneTrialCall ==
    [][\A t \in Tasks :
         LET self == mgrs[tasks'[t].mgr]
         IN /\ (self.circuit_breaker_state = HALF_OPEN /\ BreakerConsulted(t))
                 => /\ tasks'[t].pc = "done"
                    /\ tasks'[t].raised = CIRCUIT_OPEN
            /\ (self.circuit_breaker_state = HALF_OPEN /\ CallFailed(t))
                 => mgrs'[tasks'[t].mgr].circuit_breaker_state = OPEN
      ]_vars

(* C25: the consecutive-429 count is kept per kind: a step of a call of   *)
(* kind A (a rate-limit failure, an ordinary failure, a success) leaves    *)
(* the count read for every other kind B of the same manager as it was.    *)
C25_CountPerKind ==
    [][\A t \in Tasks :
         tasks'[t] # tasks[t]
            => \A k \in CallType \ {tasks'[t].call_type} :
                 consecutive_429_count_of(mgrs'[tasks'[t].mgr], k)
                    = consecutive_429_count_of(mgrs[tasks'[t].mgr], k)
      ]_vars

(* The step is one in which the provider awaited by task t raised an      *)
(* error classified as a rate-limit response                               *)
RateLimitAnswered(t) ==
    /\ ProviderAnswered(t)
    /\ Len(tasks'[t].provider_log) = Len(tasks[t].provider_log) + 1
    /\ Last(tasks'[t].provider_log) \in Errors
    /\ Is429[Last(tasks'[t].provider_log)]

(* C26: every attempt that fails with a rate-limit error, the last attempt *)
(* of a call included, adds 1 to the consecutive-429 count and to the      *)
(* rate_limited statistic of the kind and is reported to the global        *)
(* cooldown state: at once, the global count growing by 1 and pausedUntil  *)
(* being recomputed, or when the lock it waits for is granted.             *)
C26_EveryRateLimitCounted ==
    [][\A t \in Tasks :
         LET self  == mgrs[tasks[t].mgr]
             after == mgrs'[tasks[t].mgr]
             k     == tasks[t].call_type
             n     == read_global_429_count(self) + 1
         IN RateLimitAnswered(t) =>
              /\ after.consecutive_429_count = self.consecutive_429_count + 1
              /\ after.call_stats[k].rate_limited = self.call_stats[k].rate_limited + 1
              /\ tasks'[t].pc \in {"retry_sleep", "wait_update"}
              /\ tasks'[t].pc = "retry_sleep"
                   => /\ read_global_429_count(after) = n
                      /\ read_global_pause_until(after) = now + pause_minutes(n) * Minute
      ]_vars

(* C27: two provider invocations started by two separate calls of the     *)
(* same kind, other than user action, on one manager are at least          *)
(* min_call_interval (15 s) apart.  With a provider that answers in the    *)
(* instant it is invoked: when a call starts its first invocation, no      *)
(* other call of the kind is in its own first invocation, and the cache    *)
(* entry of the kind, if any, is at least 15 s old.                        *)
C27_MinimumSpacing ==
    [][\A t \in Tasks :
         LET self == mgrs[tasks'[t].mgr]
             k    == tasks'[t].call_type
         IN (ProviderInvoked(t) /\ tasks'[t].invocations = 1 /\ k # USER_ACTION)
              => /\ \A u \in Tasks \ {t} :
                       ~ /\ tasks[u].pc = "in_call"
                         /\ tasks[u].mgr = tasks'[t].mgr
                         /\ tasks[u].call_type = k
                         /\ tasks[u].invocations = 1
                 /\ k \in DOMAIN self.cache
                      => now - self.cache[k].timestamp >= min_call_interval
      ]_vars

(* The step is one in which task t leaves the global-cooldown check and   *)
(* runs call_with_retry from the breaker check on                          *)
ClearancePassed(t) ==
    /\ tasks[t].pc \in {"idle", "done", "wait_check", "pause_sleep"}
    /\ tasks'[t] # tasks[t]
    /\ tasks'[t].pc \notin {"wait_check", "pause_sleep"}

(* C28: a call with force_refresh, or of the user-action kind, never runs  *)
(* the cache lookup and never adds to the cached statistic; once the       *)
(* breaker admits it, it goes on to the provider (after the spacing sleep, *)
(* if any), whatever the cache holds; and the value it returns is the one  *)
(* the provider returned to this very call.                                *)
C28_ForcedBypassesCache ==
    [][\A t \in Tasks :
         LET task  == tasks'[t]
             k     == task.call_type
             self  == mgrs[task.mgr]
             after == mgrs'[task.mgr]
         IN (tasks'[t] # tasks[t] /\ (task.force_refresh \/ k = USER_ACTION))
              => /\ task.cached_result = NOT_RUN
                 /\ after.call_stats[k].cached = self.call_stats[k].cached
                 /\ ClearancePassed(t)
                      => \/ task.pc \in {"in_call", "rate_sleep"}
                         \/ /\ task.pc = "done"
                            /\ task.raised = CIRCUIT_OPEN
                            /\ ~is_circuit_breaker_closed(self, now)
                 /\ (task.pc = "done" /\ task.outcome = "returned")
                      => /\ task.provider_log # <<>>
                         /\ task.value = Last(task.provider_log)
      ]_vars

(* A call with force_refresh awaits the provider while the cache holds a   *)
(* fresh entry of its kind                                                 *)
C28_Witness ==
    \E t \in Tasks :
       /\ tasks[t].pc = "in_call"
       /\ tasks[t].force_refresh
       /\ get_cached_result(mgrs[tasks[t].mgr], tasks[t].call_type, now) # None

(* The cache entry of kind k, None when the cache holds none *)
CacheEntry(self, k) == IF k \in DOMAIN self.cache THEN self.cache[k] ELSE None

CycleTasks(i, c) == {InvTasks(i)[x] : x \in 1..Len(coords[c].call_types)}

(* C30: a batch cycle makes one call per configured kind and waits for all *)
(* of them.  While it gathers, the in-progress flag is set; the failure of *)
(* one kind's call changes no other call of the cycle and does not end the *)
(* cycle; and the cycle ends, clearing the flag, only when the call of     *)
(* every configured kind was made and has returned or raised.              *)
C30_BatchAwaitsAll ==
    [][\A i \in Invocations :
         cycles[i].pc = "gathering" =>
           LET c == cycles[i].coord
               n == Len(coords[c].call_types)
           IN /\ coords[c].is_updating
              /\ \A t \in CycleTasks(i, c) :
                    (tasks[t].pc # "done" /\ tasks'[t].pc = "done"
                        /\ tasks'[t].outcome = "raised")
                      => /\ \A u \in CycleTasks(i, c) \ {t} : tasks'[u] = tasks[u]
                         /\ cycles'[i].pc = "gathering"
                         /\ coords'[c].is_updating
              /\ (CycleEnded(i) \/ ~coords'[c].is_updating)
                      => /\ CycleEnded(i)
                         /\ cycles'[i].total_calls = n
                         /\ \A x \in 1..n :
                               LET task == tasks[InvTasks(i)[x]]
                               IN /\ task.pc = "done"
                                  /\ task.outcome \in {"returned", "raised"}
                                  /\ task.call_type = coords[c].call_types[x]
                                  /\ task.mgr = coords[c].api_manager
      ]_vars

(* In a gathering cycle the state-update call has failed, after its        *)
(* retries, and the feature call still awaits its provider                 *)
C30_Witness ==
    /\ cycles["i1"].pc = "gathering"
    /\ coords["c1"].is_updating
    /\ tasks["t1"].pc = "done"
    /\ tasks["t1"].outcome = "raised"
    /\ tasks["t1"].call_type = STATE_UPDATE
    /\ tasks["t2"].pc = "in_call"
    /\ tasks["t2"].call_type = FEATURES
    /\ now > 0

(* C31: the batch result belongs to the cycle that just ended: for every  *)
(* configured kind whose call returned in that cycle, get_result and the   *)
(* returned map give the payload of that call; for every kind whose call   *)
(* raised in that cycle, get_result gives nothing and the returned map has *)
(* no payload for it.                                                      *)
C31_ResultsOfLatestCycle ==
    [][\A i \in Invocations :
         (CycleEnded(i) /\ cycles'[i].status # "skipped") =>
            LET c == cycles[i].coord
                n == Len(coords[c].call_types)
            IN \A x \in 1..n :
                  LET task == tasks[InvTasks(i)[x]]
                      k    == coords[c].call_types[x]
                  IN IF task.outcome = "returned"
                     THEN /\ get_result(coords'[c], k) = task.value
                          /\ k \in DOMAIN cycles'[i].results
                          /\ cycles'[i].results[k] = task.value
                     ELSE /\ get_result(coords'[c], k) = None
                          /\ k \notin DOMAIN cycles'[i].results
      ]_vars

(* C32: while the manager is running, a coordinator loop ends only when   *)
(* it is cancelled.  When the cycle it awaits ends raising, the loop       *)
(* sleeps 30 s; when the cycle ends otherwise or is skipped, it sleeps the *)
(* interval of its coordinator.  A sleeping loop leaves its sleep only at  *)
(* its deadline and then starts another cycle (or skips it), and at the    *)
(* deadline that step is possible.                                         *)
C32_SelfHealingLoop ==
    [][\A c \in Coordinators :
         LET l  == fleet.loops[c]
             l2 == fleet'.loops[c]
             i  == LoopInv(c)
             sleeps == {"interval_sleep", "error_sleep"}
         IN (fleet.is_running /\ ~l.cancelled /\ l.pc \notin {"none", "ended"}) =>
              /\ l2.pc = "ended" => l2.cancelled
              /\ (l.pc = "updating" /\ l2.pc # "updating" /\ ~l2.cancelled)
                   => /\ CycleEnded(i)
                      /\ IF cycles'[i].status = BATCH_FAILED
                         THEN /\ l2.pc = "error_sleep"
                              /\ l2.wake_at = now + 30 * Second
                         ELSE /\ l2.pc = "interval_sleep"
                              /\ l2.wake_at = now + update_interval(c)
              /\ (l.pc \in sleeps \cup {"created"} /\ l2 # l /\ ~l2.cancelled)
                   => /\ l.pc \in sleeps => now >= l.wake_at
                      /\ \/ /\ l2.pc = "updating"
                            /\ cycles'[i].pc = "gathering"
                            /\ coords'[c].is_updating
                         \/ /\ l2.pc = "interval_sleep"
                            /\ cycles'[i].status = "skipped"
                            /\ l2.wake_at = now + update_interval(c)
              /\ (l.pc \in sleeps /\ now >= l.wake_at) => ENABLED LoopIterates(c)
      ]_vars

(* The loop of c2, still running, is in a new cycle after a cycle that     *)
(* raised and the 30 s that followed it                                    *)
C32_Witness ==
    /\ fleet.is_running
    /\ fleet.loops["c2"].pc = "updating"
    /\ coords["c2"].consecutive_failures > 0
    /\ cycles[LoopInv("c2")].pc = "gathering"
    /\ now >= 30 * Second

(* C33: an attempt, not the last of its call, that fails with another    *)
(* error than a rate limit is reported to the global cooldown state as a   *)
(* success is: the global consecutive-429 counter becomes 0 and            *)
(* pausedUntil is cleared, whatever earlier rate-limit responses had set;  *)
(* the manager's own consecutive-429 count becomes 0 as well.              *)
C33_OrdinaryFailureClearsPause ==
    [][\A t \in Tasks :
         LET after == mgrs'[tasks[t].mgr]
         IN (Reported(t) /\ tasks'[t].pc = "retry_sleep"
                /\ ~Is429[tasks'[t].last_exception])
              => /\ tasks'[t].attempt < get_max_retries(tasks'[t].call_type)
                 /\ read_global_429_count(after) = 0
                 /\ read_global_pause_until(after) = NoTime
                 /\ after.consecutive_429_count = 0
      ]_vars

(* No call has succeeded; a rate-limit response set the pause, and the     *)
(* ordinary failure of the next attempt has cleared it before its end      *)
C33_Witness ==
    /\ tasks["t1"].pc = "retry_sleep"
    /\ tasks["t1"].provider_log = <<E_429, E_TIMEOUT>>
    /\ mgrs["m1"].call_stats[STATE_UPDATE].success = 0
    /\ read_global_429_count(mgrs["m1"]) = 0
    /\ read_global_pause_until(mgrs["m1"]) = NoTime
    /\ now < 5 * Minute

(* C34: the breaker leaves Closed only when at least 5 calls have failed  *)
(* with ordinary errors since the last success; calls that failed on       *)
(* rate-limit responses do not count towards the opening.  Where no call   *)
(* succeeds, the state-update calls fail on rate limits alone and the      *)
(* feature calls on ordinary errors alone: the breaker is Closed while     *)
(* fewer than 5 feature calls have failed.                                 *)
C34_OpensOnOrdinaryFailuresOnly ==
    [][(mgrs["m1"].circuit_breaker_state = CLOSED
          /\ mgrs'["m1"].circuit_breaker_state # CLOSED)
         => mgrs'["m1"].call_stats[FEATURES].failure >= 5
      ]_vars

(* C35: a cache hit does not depend on the payload: a call without       *)
(* force_refresh whose lookup finds an entry of its kind no older than the *)
(* TTL ends without a provider call, returns the stored payload and counts *)
(* as a cached hit, whatever payload the provider had returned, None       *)
(* included.                                                               *)
C35_HitWhateverPayload ==
    [][\A t \in Tasks :
         LET m    == tasks'[t].mgr
             k    == tasks'[t].call_type
             self == mgrs[m]
         IN (/\ LookupRan(t)
             /\ k \in DOMAIN self.cache
             /\ now - self.cache[k].timestamp <= cache_ttl(k))
            => /\ tasks'[t].pc = "done"
               /\ tasks'[t].outcome = "returned"
               /\ tasks'[t].value = self.cache[k].data
               /\ tasks'[t].invocations = 0
               /\ mgrs'[m].call_stats[k].cached = self.call_stats[k].cached + 1
      ]_vars

(* C36: the table _last_call_time of every manager is empty in every      *)
(* reachable state; so _should_batch_call is false for every kind, no call *)
(* goes through _batch_call and none sleeps in _rate_limit_call.           *)
C36_LastCallTimeEmpty ==
    /\ \A m \in Managers :
          /\ mgrs[m].last_call_time = EmptyDict
          /\ \A k \in CallType : ~should_batch_call(mgrs[m], k, now)
    /\ \A t \in Tasks :
          /\ ~tasks[t].batched
          /\ tasks[t].pc # "rate_sleep"

(* A call awaits its provider, on the direct path, less than the batch     *)
(* window (30 s) after a call of the same kind succeeded                   *)
C36_Witness ==
    /\ tasks["t1"].pc = "in_call"
    /\ ~tasks["t1"].batched
    /\ tasks["t1"].call_type \in DOMAIN mgrs["m1"].cache
    /\ mgrs["m1"].call_stats[tasks["t1"].call_type].success = 1
    /\ now - mgrs["m1"].cache[tasks["t1"].call_type].timestamp < batch_window

(* Some step of a call in progress, or of the clock, is possible *)
CanProgress ==
    \/ ENABLED TickToWake
    \/ \E t \in LiveTasks :
          \/ ENABLED ClearanceLockAcquired(t)
          \/ ENABLED ProviderAnswers(t)
          \/ ENABLED UpdateLockAcquired(t, 0)
          \/ ENABLED SleepReturns(t)

(* C37: a task that sleeps out a pause in the clearance check holds the    *)
(* shared lock until its sleep ends, which is not before the pause is      *)
(* over.  Meanwhile no other task of any manager passes the clearance      *)
(* check or reports an outcome: a new call queues for the lock, and a call *)
(* whose provider answers queues for it instead of returning.  And while   *)
(* a call is in progress some step is possible: nothing deadlocks.         *)
C37_PauseHoldsLock ==
    /\ [][\A u \in Tasks :
            tasks[u].pc = "pause_sleep" =>
              /\ lock.holder = u
              /\ tasks'[u].pc # "pause_sleep" => now >= tasks[u].wake_at
              /\ tasks'[u].pc = "pause_sleep" =>
                   \A t \in Tasks \ {u} :
                      /\ ~ClearancePassed(t)
                      /\ ~Reported(t)
                      /\ (tasks[t].pc \in {"idle", "done"} /\ tasks'[t] # tasks[t])
                           => tasks'[t].pc = "wait_check"
                      /\ (ProviderAnswered(t) /\ tasks'[t].pc # "done")
                           => tasks'[t].pc = "wait_update"
         ]_vars
    /\ []((\E t \in LiveTasks : tasks[t].pc \notin {"idle", "done"}) => CanProgress)

(* t1 sleeps out a pause holding the lock; the provider of t2 has returned *)
(* during the pause and t2 waits for the lock to report it; t3, a call of  *)
(* the other manager, waits for the lock to begin                          *)
C37_Witness ==
    /\ tasks["t1"].pc = "pause_sleep"
    /\ lock.holder = "t1"
    /\ now < tasks["t1"].wake_at
    /\ tasks["t2"].pc = "wait_update"
    /\ tasks["t2"].after = "return"
    /\ tasks["t3"].pc = "wait_check"
    /\ tasks["t3"].mgr # tasks["t1"].mgr

(* C38: for any interleaving of start() and stop(): once a stop() has     *)
(* returned, and until start() is called again, the manager is not running *)
(* and no loop task is alive; and every loop task that is alive and was    *)
(* not cancelled is recorded in _update_tasks.                             *)
C38_StopLeavesNoLoop ==
    /\ fleet.stop_pc = "returned"
         => /\ ~fleet.is_running
            /\ \A c \in Coordinators :
                  /\ fleet.loops[c].pc \in {"none", "ended"}
                  /\ fleet.old[c].pc \in {"none", "ended"}
    /\ \A c \in Coordinators :
          (fleet.loops[c].pc \notin {"none", "ended"} /\ ~fleet.loops[c].cancelled)
             => c \in fleet.update_tasks

-----------------------------------------------------------------------------
(* SpecFlags: first the device coordinator is updated by u1 and u2: its    *)
(* update call returns or raises, and an update may be cancelled wherever  *)
(* it is suspended.  When no update is in flight the manager is started,   *)
(* with the loops of c1 and c2 on manager m1, and is stopped at any        *)
(* moment; the bus-error cycle is also invoked outside its loop            *)
(* (invocation i2), so that a cycle may find another in flight.  Provider  *)
(* calls of the manager return a payload.                                  *)

MaxFlagCalls == 2
MaxFlagSeconds == 1
MaxFlagFailures == 1

ManagerUnused == ~fleet.is_running /\ fleet.stop_pc = "idle" /\ CallsOf("m1") = 0

NextFlags ==
    \/ /\ fleet.stop_pc = "idle"
       /\ ~dev.is_updating
       /\ Start
    \/ Stop
    \/ StopReturns
    \/ \E c \in Coordinators :
          /\ CallsOf("m1") < MaxFlagCalls \/ ~fleet.is_running
          /\ fleet.loops[c].pc = "created" \/ ~fleet.is_running
          /\ LoopIterates(c)
    \/ \E c \in Coordinators : LoopCycleEnds(c)
    \/ \E c \in Coordinators : LoopCancelled(c)
    \/ \E c \in Coordinators, x \in 1..2 : ExecuteSingleCall(LoopInv(c), x)
    \/ /\ CallsOf("m1") < MaxFlagCalls
       /\ fleet.stop_pc # "idle" \/ fleet.is_running
       /\ DirectTrigger("i2", "c2")
    \/ ExecuteSingleCall("i2", 1)
    \/ DirectGathered("i2")
    \/ \E t \in LoopTasks \cup {"t3"} : ProviderReturns(t, "A")
    \/ \E u \in Updates :
          /\ now < MaxFlagSeconds * Second
          /\ ManagerUnused
          /\ UpdateStarts(u)
    \/ \E u \in Updates : UpdateStateReturns(u)
    \/ /\ dev.consecutive_failures < MaxFlagFailures
       /\ UpdateStateRaises("u1", E_TIMEOUT)
    \/ \E u \in Updates : UpdateSleepReturns(u)
    \/ \E u \in Updates : UpdateCancelled(u)
    \/ UpdateTick

SpecFlags == Init /\ [][NextFlags]_vars

(* The in-progress flag of each coordinator against its invocations that  *)
(* are suspended inside the update                                         *)
FlagsMatchUpdates ==
    /\ \A c \in Coordinators :
          coords[c].is_updating
             <=> \E i \in Invocations :
                    cycles[i].pc = "gathering" /\ cycles[i].coord = c
    /\ dev.is_updating
          <=> \E u \in Updates : updates[u].pc \in {"in_call", "retry_sleep"}

(* C39: the in-progress flag of a coordinator, batched or device, is true *)
(* exactly while one of its updates is executing: it is cleared when that  *)
(* update returns, raises or is cancelled where it is suspended; and an    *)
(* invocation is skipped only while another update of the same coordinator *)
(* is in flight.                                                           *)
C39_FlagExactlyWhileUpdating ==
    /\ [](FlagsMatchUpdates)
    /\ [][/\ \A i \in Invocations :
                (cycles'[i] # cycles[i] /\ cycles'[i].status = "skipped")
                => \E j \in Invocations \ {i} :
                      /\ cycles[j].pc = "gathering"
                      /\ cycles[j].coord = cycles'[i].coord
          /\ \A u \in Updates :
                (updates'[u] # updates[u] /\ updates'[u].status = "skipped")
                => \E v \in Updates \ {u} :
                      updates[v].pc \in {"in_call", "retry_sleep"}
         ]_vars

(* Update u1 was cancelled in the sleep after a failed attempt and u2, *)
(* invoked later, was not skipped and succeeded; the cycle of the loop of  *)
(* c2 was cancelled by stop() and the cycle invoked on c2 afterwards was   *)
(* not skipped and awaits its call                                         *)
C39_Witness ==
    /\ updates["u1"].status = "cancelled"
    /\ Len(updates["u1"].sleeps) = 1
    /\ updates["u2"].status = "success"
    /\ ~dev.is_updating
    /\ cycles["i3"].status = "cancelled"
    /\ cycles["i2"].pc = "gathering"
    /\ cycles["i2"].coord = "c2"
    /\ coords["c2"].is_updating

(* C40: consecutive_failures of the batched coordinator counts the failed *)
(* cycles since the last successful one: a cycle in which every kind fails *)
(* increases it by exactly 1, a cycle with at least one successful kind    *)
(* sets it to 0, and a skipped cycle leaves it unchanged.                  *)
C40_CountsFailedCycles ==
    [][\A i \in Invocations :
          (cycles'[i] # cycles[i] /\ cycles'[i].pc = "done")
          => LET c == cycles'[i].coord
             IN /\ cycles'[i].status = BATCH_FAILED
                     => coords'[c].consecutive_failures
                           = coords[c].consecutive_failures + 1
                /\ cycles'[i].status = "success"
                     => coords'[c].consecutive_failures = 0
                /\ cycles'[i].status = "skipped"
                     => coords'[c].consecutive_failures
                           = coords[c].consecutive_failures
      ]_vars

====
